---- MODULE Spec2Model ----
(***************************************************************************)
(* Model of the Qt Package Tool build/deploy pipeline:                     *)
(*   src/src/compiler.py  QtCompiler  (the pipeline, one QProcess)         *)
(*   src/src/main.py      QtPackage   (the caller: packaging_toggle and    *)
(*                                     the slots connected to the signals) *)
(*                                                                         *)
(* The QProcess is modelled in two steps, as Qt runs it: the external      *)
(* process exits at the operating system (ProcessExits), and later the     *)
(* event loop notices it, sets the state to NotRunning and emits finished  *)
(* (ProcessFinishedEvent), which runs process_finished.  A click on the    *)
(* toggle button is another event of the same loop and may be handled      *)
(* between the two.                                                        *)
(***************************************************************************)
EXTENDS Integers, Sequences, FiniteSets, TLC

VARIABLES
    is_compiling,                \* QtPackage.is_compiling
    _make_started,               \* QtCompiler._make_started
    _deploy_started,             \* QtCompiler._deploy_started
    _copy_sources_started,       \* QtCompiler._copy_sources_started
    _qml_dll_deploy_count,       \* QtCompiler._qml_dll_deploy_count
    _qml_dll_need_deploy_files,  \* QtCompiler._qml_dll_need_deploy_files
    external_sources,            \* QtCompiler.external_sources (the manifest)
    is_release,                  \* QtCompiler.is_release
    need_clean,                  \* QtCompiler.need_clean
    process,                     \* QtCompiler.process (the QProcess); its field
                                 \* current tells a process of the current run
    fs,                          \* the file system: which paths exist
    events,                      \* history: signals emitted in the current run
    stages,                      \* history: stages entered in the current run
    started,                     \* history: processes started in the current run
    fresh,                       \* history: the run began with no process running
    delivered,                   \* history: completions handled in the current run
    package_terminal,            \* the lines packaging_toggle itself appended to
                                 \* the terminal in the latest step
    disk,                        \* the files the copy and the clean-up work on
    project_lines,               \* the lines of the project file
    resolved,                    \* history: results of get_exe_name_from_pro
    qt_compiler,                 \* QtPackage.qt_compiler
    qt_mingw,                    \* QtPackage.qt_mingw
    env_button,                  \* the text of env_button; it is disabled
                                 \* while it reads "Scanning..."
    env_qt_version_combo_box,    \* the items and placeholder of the combo box
    env_qt_mingw_combo_box,      \* the items and placeholder of the combo box
    scan_thread,                 \* the thread scan_qt_path started last
    posted,                      \* the ScanFinishedEvents posted, not yet handled
    qt_root                      \* the directory trees of the folders to scan

vars == <<is_compiling, _make_started, _deploy_started, _copy_sources_started,
          _qml_dll_deploy_count, _qml_dll_need_deploy_files, external_sources,
          is_release, need_clean, process, fs, events, stages, started,
          fresh, delivered, package_terminal, disk, project_lines, resolved,
          qt_compiler, qt_mingw, env_button, env_qt_version_combo_box,
          env_qt_mingw_combo_box, scan_thread, posted, qt_root>>

\* the state of the scan for Qt installations
scanvars == <<qt_compiler, qt_mingw, env_button, env_qt_version_combo_box,
              env_qt_mingw_combo_box, scan_thread, posted, qt_root>>

(***************************************************************************)
(* Bounds of the model.                                                    *)
(***************************************************************************)
MaxExitCode == 2      \* exit codes range over 0..MaxExitCode

ExitCodes == 0..MaxExitCode

(***************************************************************************)
(* Paths are sequences of components; the configuration's four paths are   *)
(* fixed non-empty values (packaging_toggle refuses empty ones).           *)
(***************************************************************************)
project_file == <<"app.pro">>
qt_bin       == <<"Qt", "bin">>
mingw_bin    == <<"mingw", "bin">>
output_path  == <<"out">>

Join(p, name) == p \o <<name>>
Parent(p)     == SubSeq(p, 1, Len(p) - 1)

\* the two names exchanged
config_dir_swapped(release) == IF release THEN "debug" ELSE "release"

\* config_type / config_dir = "release" if is_release else "debug"
config_dir(release) == IF release THEN "release" ELSE "debug"

\* build_dir = Path(output_path) / config_dir
build_dir_always_release(release) == Join(output_path, "release")

build_dir(release) == Join(output_path, config_dir(release))

(***************************************************************************)
(* The manifest: entries {Source, Destination, Type}.                      *)
(***************************************************************************)
Plain   == [Source |-> "a.txt",      Destination |-> "/a.txt",      Type |-> "Generic"]
Qml     == [Source |-> "plugin.dll", Destination |-> "/plugin.dll", Type |-> "QML"]
QmlLow  == [Source |-> "assets",     Destination |-> "\\mod.dll",   Type |-> " qml "]
NoSrc   == [Source |-> "",           Destination |-> "/x.dll",      Type |-> "QML"]
NoDst   == [Source |-> "b.txt",      Destination |-> "",            Type |-> "Generic"]

Manifests == { <<>>, <<Plain>>, <<Plain, Qml>>, <<Qml, QmlLow>>,
               <<NoSrc, NoDst, Plain>> }

\* type.strip().casefold() on the Type values the manifests use
StripCasefold(t) ==
    CASE t = "Generic" -> "generic"
      [] t = "QML"     -> "qml"
      [] t = " qml "   -> "qml"
      [] OTHER         -> t

\* dest.lstrip("/\\") and dest.lstrip("/") on the Destination values used
LstripSlashes(d) ==
    CASE d = "/a.txt"      -> "a.txt"
      [] d = "/plugin.dll" -> "plugin.dll"
      [] d = "\\mod.dll"   -> "mod.dll"
      [] d = "/x.dll"      -> "x.dll"
      [] OTHER             -> d

LstripSlash(d) ==
    CASE d = "/a.txt"      -> "a.txt"
      [] d = "/plugin.dll" -> "plugin.dll"
      [] d = "/x.dll"      -> "x.dll"
      [] OTHER             -> d

\* os.path.isfile / os.path.isdir of the Source values used
IsFile(src) == src \in {"a.txt", "plugin.dll"}
IsDir(src)  == src \in {"assets"}

\* the same with the Type compared as it is written
RECURSIVE QmlDestinationsExact(_)
QmlDestinationsExact(entries) ==
    IF entries = <<>> THEN <<>>
    ELSE LET entry == Head(entries)
             rest  == QmlDestinationsExact(Tail(entries))
         IN  IF entry.Type = "QML"
             THEN <<entry.Destination>> \o rest
             ELSE rest

\* the Destination of every entry whose Type is "qml" after strip and casefold
RECURSIVE QmlDestinations(_)
QmlDestinations(entries) ==
    IF entries = <<>> THEN <<>>
    ELSE LET entry == Head(entries)
             rest  == QmlDestinations(Tail(entries))
         IN  IF StripCasefold(entry.Type) = "qml"
             THEN <<entry.Destination>> \o rest
             ELSE rest

(***************************************************************************)
(* The file system: which tools and products exist.  It does not change    *)
(* during a behaviour.                                                     *)
(***************************************************************************)
Paths == {"qmake", "make", "windeployqt", "exe", "qmldir"}

\* A run stops at the first missing path it meets, so the file systems with
\* at most one path missing show every behaviour of a run.
FileSystems == { f \in [Paths -> BOOLEAN] :
                   \A p, q \in Paths : ~f[p] /\ ~f[q] => p = q }

Configs == [sources : Manifests, release : BOOLEAN, clean : BOOLEAN]

(***************************************************************************)
(* QProcess.                                                               *)
(***************************************************************************)
\* What a process can report when it ends.  Qt reports a crash (a killed
\* process included) with a non-zero code: the signal number, or 0xf291.
Outcomes == [status : {"NormalExit"}, code : ExitCodes]
            \cup [status : {"CrashExit"}, code : ExitCodes \ {0}]

\* the search path the program inherits from its own environment
InheritedPath == << <<"Windows", "system32">> >>

\* A QProcess that was never started: it would run in the program's working
\* directory with the program's environment.
NoProcess == [state |-> "NotRunning", program |-> "",
              alive |-> FALSE, exitStatus |-> "NormalExit", exitCode |-> 0,
              current |-> FALSE,
              workingDirectory |-> <<>>, PATH |-> InheritedPath,
              \* the bytes written to each channel and not read yet, how
              \* many chunks the children have written so far,
              out |-> <<>>, err |-> <<>>, wrote |-> 0,
              \* how many chunks were taken by a read whose decode raised
              undecoded |-> 0]

\* QProcess.start: ignored (with a warning) unless the state is NotRunning;
\* a program that does not exist fails to start and no finished follows.
QProcessStart(p, program, exists) ==
    IF p.state # "NotRunning" THEN p
    ELSE IF ~exists
         THEN [p EXCEPT !.exitStatus = "NormalExit", !.exitCode = 0]
         ELSE [p EXCEPT !.state = "Running", !.program = program,
                        !.alive = TRUE, !.exitStatus = "NormalExit",
                        !.exitCode = 0, !.current = TRUE]

\* QProcess.kill: ends the process if the operating system still runs it;
\* the state changes only when the event loop handles the exit.
QProcessKill(p, code) ==
    IF p.state = "Running" /\ p.alive
    THEN [p EXCEPT !.alive = FALSE, !.exitStatus = "CrashExit", !.exitCode = code]
    ELSE p

\* the codes a kill of p can make it report (one value when p is not killed)
KillCodes(p) ==
    IF p.state = "Running" /\ p.alive THEN ExitCodes \ {0} ELSE {MaxExitCode}

(***************************************************************************)
(* The compiler object and the histories, as one record the handlers of    *)
(* QtCompiler transform.                                                   *)
(***************************************************************************)
Self == [compiling |-> is_compiling,
         make      |-> _make_started,
         deploy    |-> _deploy_started,
         copy      |-> _copy_sources_started,
         qml       |-> _qml_dll_deploy_count,
         files     |-> _qml_dll_need_deploy_files,
         sources   |-> external_sources,
         release   |-> is_release,
         clean     |-> need_clean,
         proc      |-> process,
         fs        |-> fs,
         ev        |-> events,
         st        |-> stages,
         sp        |-> started,
         fresh     |-> fresh,
         delivered |-> delivered,
         terminal  |-> <<>>,
         disk      |-> disk,
         pro       |-> project_lines]

Becomes(c) ==
    /\ is_compiling' = c.compiling
    /\ _make_started' = c.make
    /\ _deploy_started' = c.deploy
    /\ _copy_sources_started' = c.copy
    /\ _qml_dll_deploy_count' = c.qml
    /\ _qml_dll_need_deploy_files' = c.files
    /\ external_sources' = c.sources
    /\ is_release' = c.release
    /\ need_clean' = c.clean
    /\ process' = c.proc
    /\ fs' = c.fs
    /\ events' = c.ev
    /\ stages' = c.st
    /\ started' = c.sp
    /\ fresh' = c.fresh
    /\ delivered' = c.delivered
    /\ package_terminal' = c.terminal
    /\ disk' = c.disk
    /\ UNCHANGED <<project_lines, resolved>>
    /\ UNCHANGED scanvars

Event(kind, msg, code, path, src) ==
    [kind |-> kind, msg |-> msg, code |-> code, path |-> path, src |-> src]

Stage(name, i) == [name |-> name, i |-> i]

\* QtPackage.handle_error and handle_finished, connected to the signals in
\* set_connection, run inside emit: both clear is_compiling.
handle_error(c)    == [c EXCEPT !.compiling = FALSE]
handle_finished(c) == [c EXCEPT !.compiling = FALSE]

emit_output(c, msg, code, path, src) ==
    [c EXCEPT !.ev = Append(@, Event("Output", msg, code, path, src))]

emit_error(c, msg, code, path, src) ==
    handle_error([c EXCEPT !.ev = Append(@, Event("Error", msg, code, path, src))])

emit_finished(c, path) ==
    handle_finished([c EXCEPT !.ev = Append(@, Event("Finished", "", 0, path, ""))])

enter(c, name, i) == [c EXCEPT !.st = Append(@, Stage(name, i))]

(***************************************************************************)
(* QtCompiler.handle_stdout and handle_stderr.  A child writes chunks of   *)
(* bytes; chunk n is the n-th chunk written, on one channel, and is UTF-8   *)
(* or not.  The text of an emitted signal is prefix followed by the chunks *)
(* of text.                                                                *)
(***************************************************************************)
Channels == {"stdout", "stderr"}

Chunk(n, channel, utf8) == [n |-> n, channel |-> channel, utf8 |-> utf8]

Forwarded(prefix, text) ==
    [kind |-> "Output", msg |-> prefix, code |-> 0, path |-> <<>>, src |-> "",
     text |-> text]

\* bytes(data).decode("utf-8") raises when the bytes are not UTF-8
Decodes(data) == \A i \in DOMAIN data : data[i].utf8

\* handle_stderr without the prefix
handle_stderr_verbatim(c) ==
    LET data == c.proc.err
        c1   == [c EXCEPT !.proc.err = <<>>]
    IN  IF Decodes(data)
        THEN [c1 EXCEPT !.ev = Append(@, Forwarded("", data))]
        ELSE [c1 EXCEPT !.proc.undecoded = @ + Len(data)]

\* readAllStandardOutput takes all that is there; the exception of decode
\* leaves the handler with the bytes taken and nothing emitted
handle_stdout(c) ==
    LET data == c.proc.out
        c1   == [c EXCEPT !.proc.out = <<>>]
    IN  IF Decodes(data)
        THEN [c1 EXCEPT !.ev = Append(@, Forwarded("", data))]
        ELSE [c1 EXCEPT !.proc.undecoded = @ + Len(data)]

handle_stderr(c) ==
    LET data == c.proc.err
        c1   == [c EXCEPT !.proc.err = <<>>]
    IN  IF Decodes(data)
        THEN [c1 EXCEPT !.ev = Append(@, Forwarded("[Error] ", data))]
        ELSE [c1 EXCEPT !.proc.undecoded = @ + Len(data)]

\* before finished, QProcess signals what is left in the two channels
drain(c) ==
    LET c1 == IF c.proc.out # <<>> THEN handle_stdout(c) ELSE c
    IN  IF c1.proc.err # <<>> THEN handle_stderr(c1) ELSE c1

\* self.process.start(program, args); the history keeps, with the program
\* and its arguments, the working directory and search path it runs with and
\* how many signals the run had emitted before it
start(c, program, args, exists) ==
    LET p == QProcessStart(c.proc, program, exists)
    IN  [c EXCEPT !.proc = p,
                  !.sp = IF c.proc.state = "NotRunning" /\ exists
                         THEN Append(@, [program |-> program, args |-> args,
                                         cwd |-> c.proc.workingDirectory,
                                         PATH |-> c.proc.PATH,
                                         after |-> Len(c.ev)])
                         ELSE @]

(***************************************************************************)
(* get_exe_name_from_pro.  Text is a sequence of characters; a project     *)
(* file is its base name and its lines.                                    *)
(***************************************************************************)
UpperCase == << "A", "B", "C", "D", "E", "F", "G", "H", "I", "J", "K", "L", "M",
                "N", "O", "P", "Q", "R", "S", "T", "U", "V", "W", "X", "Y", "Z" >>
LowerCase == << "a", "b", "c", "d", "e", "f", "g", "h", "i", "j", "k", "l", "m",
                "n", "o", "p", "q", "r", "s", "t", "u", "v", "w", "x", "y", "z" >>

\* str.lower leaving every character as it is
KeepCase(text) == text

\* str.lower, character by character
LowerChar(ch) ==
    IF \E i \in DOMAIN UpperCase : UpperCase[i] = ch
    THEN LowerCase[CHOOSE i \in DOMAIN UpperCase : UpperCase[i] = ch]
    ELSE ch

Lower(text) == [i \in DOMAIN text |-> LowerChar(text[i])]

IsSpace(ch) == ch \in {" ", "\t", "\n", "\r"}

\* str.strip
RECURSIVE LStrip(_)
LStrip(text) ==
    IF text # <<>> /\ IsSpace(Head(text)) THEN LStrip(Tail(text)) ELSE text

RECURSIVE RStrip(_)
RStrip(text) ==
    IF text # <<>> /\ IsSpace(text[Len(text)])
    THEN RStrip(SubSeq(text, 1, Len(text) - 1))
    ELSE text

Strip(text) == RStrip(LStrip(text))

\* str.startswith
StartsWith(text, prefix) ==
    Len(text) >= Len(prefix) /\ SubSeq(text, 1, Len(prefix)) = prefix

\* str.split(sep) for a separator of one character
RECURSIVE Split(_, _)
Split(text, sep) ==
    IF \E i \in DOMAIN text : text[i] = sep
    THEN LET i == CHOOSE k \in DOMAIN text :
                      text[k] = sep /\ \A j \in 1..(k - 1) : text[j] # sep
         IN  <<SubSeq(text, 1, i - 1)>> \o Split(SubSeq(text, i + 1, Len(text)), sep)
    ELSE <<text>>

\* os.path.splitext(name)[0]: the name up to its last dot, a dot that only
\* dots precede being no extension
SplitExtRoot(name) ==
    LET dots == { i \in DOMAIN name :
                    name[i] = "." /\ \E j \in 1..(i - 1) : name[j] # "." }
    IN  IF dots = {} THEN name
        ELSE SubSeq(name, 1, (CHOOSE i \in dots : \A j \in dots : j <= i) - 1)

TargetKeyword == << "t", "a", "r", "g", "e", "t" >>
ExeSuffix     == << ".", "e", "x", "e" >>

\* the loop over the lines: every matching line with a "=" replaces the name
RECURSIVE ScanLines(_, _)
ScanLines(lines, exe_name) ==
    IF lines = <<>> THEN exe_name
    ELSE LET line  == Head(lines)
             parts == Split(line, "=")
         IN  IF StartsWith(Lower(Strip(line)), TargetKeyword) /\ Len(parts) > 1
             THEN ScanLines(Tail(lines), Strip(parts[2]))
             ELSE ScanLines(Tail(lines), exe_name)

get_exe_name_from_pro(name, lines) ==
    ScanLines(lines, SplitExtRoot(name)) \o ExeSuffix

\* the project file of the pipeline's runs: app.pro, which sets TARGET = demo
ProjectFileName  == << "a", "p", "p", ".", "p", "r", "o" >>
ProjectFileLines ==
    << << "Q", "T", " ", "+", "=", " ", "c", "o", "r", "e", "\n" >>,
       << "T", "A", "R", "G", "E", "T", " ", "=", " ", "d", "e", "m", "o", "\n" >> >>

(***************************************************************************)
(* Project files for the resolution of the executable name: at most one    *)
(* line TARGET = foo, written with any letter case of the keyword and any  *)
(* blanks around the keyword, the "=" and the value, with another line     *)
(* before or after it.                                                     *)
(***************************************************************************)
Keywords == { << "T", "A", "R", "G", "E", "T" >>,
              << "t", "a", "r", "g", "e", "t" >>,
              << "T", "a", "r", "G", "e", "t" >> }

Blanks == { << >>, << " " >>, << "\t" >> }

Gaps == { << >>, << " " >> }

Directive(lead, keyword, before, after, trail) ==
    lead \o keyword \o before \o << "=" >> \o after \o << "f", "o", "o" >>
         \o trail \o << "\n" >>

Directives ==
    { Directive(lead, keyword, before, after, trail) :
        lead \in Blanks, keyword \in Keywords, before \in Gaps,
        after \in Gaps, trail \in Gaps }

OtherLines ==
    { << "Q", "T", " ", "+", "=", " ", "c", "o", "r", "e", "\n" >>,
      << "#", " ", "T", "A", "R", "G", "E", "T", " ", "=", " ", "b", "a", "r", "\n" >>,
      << "T", "A", "R", "G", "E", "T", "\n" >>,
      << "t", "a", "r", "g", "e", "t", ".", "p", "a", "t", "h", " ", "=", " ",
         "/", "x", "\n" >>,
      << "T", "A", "R", "G", "E", "T", "D", "E", "P", "S", " ", "=", " ", "y",
         "\n" >> }

ProjectFiles ==
    { << >> }
    \cup { << line >> : line \in Directives \cup OtherLines }
    \cup { << other, line >> : other \in OtherLines, line \in Directives }
    \cup { << line, other >> : other \in OtherLines, line \in Directives }
    \cup { << other, another >> : other \in OtherLines, another \in OtherLines }

(***************************************************************************)
(* QtCompiler.stop_process                                                 *)
(***************************************************************************)
stop_process(c, killcode) ==
    LET killed == [c EXCEPT !.proc = QProcessKill(c.proc, killcode)]
    IN  enter(emit_error(killed, "Build stopped by user", 0, <<>>, ""),
              "Cancelled", 0)

(***************************************************************************)
(* QtCompiler.clean_build_files: io.artifacts files match the patterns in  *)
(* the build directory, the first io.undeletable of them cannot be removed.*)
(* The last line's event records the directory that was searched.          *)
(***************************************************************************)
RECURSIVE DeleteWarnings(_, _)
DeleteWarnings(c, n) ==
    IF n = 0 THEN c
    ELSE emit_output(DeleteWarnings(c, n - 1), "[Error] Could not delete", n,
                     <<>>, "")

clean_build_files(c, io) ==
    LET warned == DeleteWarnings(c, io.undeletable)
    IN  emit_output(warned, "Cleaned build artifact files.",
                    io.artifacts - io.undeletable, build_dir(c.release), "")

(***************************************************************************)
(* QtCompiler.process_finished, branch by branch.                          *)
(***************************************************************************)
\* exitStatus() == NormalExit and exit_code == 0
ExitedNormally(p) == p.exitStatus = "NormalExit" /\ p.exitCode = 0

start_make_unchecked(c) ==
    start(enter(emit_output([c EXCEPT !.make = TRUE], "Running make...", 0,
                            <<>>, ""), "Building", 0),
          "mingw32-make.exe", <<>>, TRUE)

\* start_make without the assignment to _make_started
start_make_flag_unset(c) ==
    IF ~c.fs.make
    THEN enter(emit_error(c, "Make tool not found", 0,
                          Join(mingw_bin, "mingw32-make.exe"), ""), "Failed", 0)
    ELSE start(enter(emit_output(c, "Running make...", 0, <<>>, ""),
                     "Building", 0),
               "mingw32-make.exe", <<>>, TRUE)

\* Step 1: qmake finished, start make
start_make(c) ==
    LET c1 == [c EXCEPT !.make = TRUE]
        make_tool == Join(mingw_bin, "mingw32-make.exe")
    IN  IF ~c1.fs.make
        THEN enter(emit_error(c1, "Make tool not found", 0, make_tool, ""),
                   "Failed", 0)
        ELSE start(enter(emit_output(c1, "Running make...", 0, <<>>, ""),
                         "Building", 0),
                   "mingw32-make.exe", <<>>, TRUE)

\* start_deploy without the test of the executable
start_deploy_unchecked(c) ==
    LET c1 == [c EXCEPT !.deploy = TRUE]
        exe_name == get_exe_name_from_pro(ProjectFileName, c1.pro)
        exe_path == Join(build_dir(c1.release), exe_name)
    IN  start(enter(emit_output(c1, "Running windeployqt...", 0, <<>>, ""),
                    "Deploying", 0),
              "windeployqt.exe", <<exe_path>>, c1.fs.windeployqt)

\* Step 2: make finished, start windeployqt (whose existence is not tested)
start_deploy(c) ==
    LET c1 == [c EXCEPT !.deploy = TRUE]
        exe_name == get_exe_name_from_pro(ProjectFileName, c1.pro)
        exe_path == Join(build_dir(c1.release), exe_name)
    IN  IF ~c1.fs.exe
        THEN enter(emit_error(c1, "Executable not found", 0, exe_path, ""),
                   "Failed", 0)
        ELSE start(enter(emit_output(c1, "Running windeployqt...", 0, <<>>, ""),
                         "Deploying", 0),
                   "windeployqt.exe", <<exe_path>>, c1.fs.windeployqt)

\* deploy_qml without the test of the two paths
deploy_qml_unchecked(c) ==
    LET dll      == c.files[c.qml + 1]
        dll_path == Join(build_dir(c.release), LstripSlashes(dll))
        qml_path == Join(Parent(qt_bin), "qml")
        c1 == enter(emit_output(c, "Deploying QML DLL", 0, dll_path, ""),
                    "DeployingQmlDependency", c.qml)
        c2 == start(c1, "windeployqt.exe",
                    <<dll_path, <<"--qmldir">>, qml_path>>, TRUE)
    IN  [c2 EXCEPT !.qml = @ + 1]

\* Step 4: deploy the next QML DLL
deploy_qml(c) ==
    LET dll      == c.files[c.qml + 1]
        dll_path == Join(build_dir(c.release), LstripSlashes(dll))
        qml_path == Join(Parent(qt_bin), "qml")
    IN  IF ~c.fs.windeployqt \/ ~c.fs.qmldir
        THEN enter(emit_error(c, "Path not found", 0, qml_path, ""), "Failed", 0)
        ELSE LET c1 == enter(emit_output(c, "Deploying QML DLL", 0, dll_path, ""),
                             "DeployingQmlDependency", c.qml)
                 c2 == start(c1, "windeployqt.exe",
                             <<dll_path, <<"--qmldir">>, qml_path>>, TRUE)
             IN  [c2 EXCEPT !.qml = @ + 1]

\* the last branch cleaning whatever the clean flag says
succeed_always_clean(c, io) ==
    emit_output(clean_build_files(enter(emit_finished(c, build_dir(c.release)),
                                        "Succeeded", 0), io),
                "Packaging finished!", 0, <<>>, "")

\* the last branch: the build is done
succeed(c, io) ==
    LET c1 == enter(emit_finished(c, build_dir(c.release)), "Succeeded", 0)
        c2 == IF c1.clean THEN clean_build_files(c1, io) ELSE c1
    IN  emit_output(c2, "Packaging finished!", 0, <<>>, "")

report_failure_swallowed(c) == c

\* the else branch: the process did not exit normally with code 0
report_failure(c) ==
    IF c.proc.exitCode # 0
    THEN IF c.make
         THEN enter(emit_error(c, "Build failed with exit code",
                               c.proc.exitCode, <<>>, ""), "Failed", 0)
         ELSE IF c.deploy
              THEN enter(emit_error(c, "Deployment failed with exit code",
                                    c.proc.exitCode, <<>>, ""), "Failed", 0)
              ELSE c
    ELSE IF c.proc.exitStatus # "NormalExit"
         THEN enter(emit_error(c, "Process exited abnormally, code",
                               c.proc.exitCode, <<>>, ""), "Failed", 0)
         ELSE c

RECURSIVE process_finished(_, _)

(***************************************************************************)
(* QtCompiler.copy_sources_to_output: io.copyFail is the index of the      *)
(* entry whose copy raises an I/O error (0: none does).  CopyLoop returns  *)
(* the state after the loop and whether the loop ran to its end.           *)
(***************************************************************************)
\* the loop with an entry that lacks its source or destination reported as an
\* error that ends the copy
RECURSIVE CopyLoopStrict(_, _, _, _, _)
CopyLoopStrict(c, entries, i, output_dir, io) ==
    IF i > Len(entries) THEN [c |-> c, done |-> TRUE]
    ELSE LET entry == entries[i]
             dest  == Join(output_dir, LstripSlash(entry.Destination))
         IN  IF entry.Source = "" \/ entry.Destination = ""
             THEN [c |-> enter(emit_error(c, "Invalid entry", i, <<>>,
                                          entry.Source), "Failed", 0),
                   done |-> FALSE]
             ELSE CopyLoopStrict(emit_output(c, "Copied", i, dest, entry.Source),
                                 entries, i + 1, output_dir, io)

RECURSIVE CopyLoop(_, _, _, _, _)
CopyLoop(c, entries, i, output_dir, io) ==
    IF i > Len(entries) THEN [c |-> c, done |-> TRUE]
    ELSE LET entry    == entries[i]
             src      == entry.Source
             dest_rel == entry.Destination
             dest     == Join(output_dir, LstripSlash(dest_rel))
         IN  IF src = "" \/ dest_rel = ""
             THEN CopyLoop(emit_output(c, "Invalid entry, skipping", i, <<>>, src),
                           entries, i + 1, output_dir, io)
             ELSE IF IsFile(src) \/ IsDir(src)
                  THEN IF io.copyFail = i
                       THEN [c |-> enter(emit_error(c, "Failed to copy", i, dest, src),
                                         "Failed", 0),
                             done |-> FALSE]
                       ELSE CopyLoop(emit_output(c, "Copied", i, dest, src),
                                     entries, i + 1, output_dir, io)
                  ELSE CopyLoop(c, entries, i + 1, output_dir, io)

\* copy_sources_to_output going on after a failed copy
copy_sources_then_continue(c, external_source, output_dir, io) ==
    process_finished(CopyLoop(c, external_source, 1, output_dir, io).c, io)

copy_sources_to_output(c, external_source, output_dir, io) ==
    LET r == CopyLoop(c, external_source, 1, output_dir, io)
    IN  IF r.done THEN process_finished(r.c, io) ELSE r.c

\* copy_sources with the release directory written out
copy_sources_to_release(c, io) ==
    LET c1 == [c EXCEPT !.copy = TRUE]
        c2 == enter(emit_output(c1, "Copying external sources...", 0, <<>>, ""),
                    "CopyingExternalSources", 0)
    IN  copy_sources_to_output(c2, c2.sources, Join(output_path, "release"), io)

\* Step 3: copy sources
copy_sources(c, io) ==
    LET c1 == [c EXCEPT !.copy = TRUE]
        c2 == enter(emit_output(c1, "Copying external sources...", 0, <<>>, ""),
                    "CopyingExternalSources", 0)
    IN  copy_sources_to_output(c2, c2.sources, build_dir(c2.release), io)

copy_even_if_empty(c) == ~c.copy

\* the copy step never taken
copy_skipped(c) == FALSE

\* not self._copy_sources_started and self.external_sources
copy_needed(c) == ~c.copy /\ c.sources # <<>>

process_finished(c, io) ==
    IF ExitedNormally(c.proc)
    THEN IF ~c.make THEN start_make(c)
         ELSE IF ~c.deploy THEN start_deploy(c)
         ELSE IF copy_needed(c) THEN copy_sources(c, io)
         ELSE IF c.qml < Len(c.files) THEN deploy_qml(c)
         ELSE succeed(c, io)
    ELSE report_failure(c)

(***************************************************************************)
(* Files.  A file system is the set of its files, a path the sequence of   *)
(* its names, "\\" naming the root of the drive.  A locked file can be     *)
(* neither written nor removed.  A text that holds a path is the sequence  *)
(* of its separators and names.                                            *)
(***************************************************************************)
File(path, data, locked) == [path |-> path, data |-> data, locked |-> locked]

IsUnder(path, dir) == Len(path) > Len(dir) /\ SubSeq(path, 1, Len(dir)) = dir

\* os.path.isfile and os.path.isdir
isfile(d, path) == \E f \in d : f.path = path
isdir(d, path)  == \E f \in d : IsUnder(f.path, path)

FileAt(d, path) == CHOOSE f \in d : f.path = path

Root == "\\"

IsSep(tok) == tok \in {"/", "\\"}

\* str.lstrip(chars)
RECURSIVE lstrip(_, _)
lstrip(text, chars) ==
    IF text # <<>> /\ Head(text) \in chars THEN lstrip(Tail(text), chars) ELSE text

Names(text) == SelectSeq(text, LAMBDA tok : ~IsSep(tok))

\* os.path.join(path, text) on Windows: a text that begins with a separator
\* is rooted and takes the place of the path
path_join(path, text) ==
    IF text # <<>> /\ IsSep(Head(text))
    THEN <<Root>> \o Names(text)
    ELSE path \o Names(text)

\* shutil.copy2(src, dest): into dest when dest is a directory; the file
\* written replaces the one that was there, and a locked one makes it raise
copy2(d, src, dest) ==
    LET target == IF isdir(d, dest) THEN Join(dest, src[Len(src)]) ELSE dest
    IN  IF isfile(d, target) /\ FileAt(d, target).locked
        THEN [disk |-> d, raised |-> TRUE]
        ELSE [disk |-> { f \in d : f.path # target }
                          \cup { File(target, FileAt(d, src).data, FALSE) },
              raised |-> FALSE]

\* shutil.copytree(src, dest, dirs_exist_ok=True): every file of the tree is
\* copied to the same place under dest; it goes on after a file that cannot
\* be written and raises at the end
copytree(d, src, dest) ==
    LET sources   == { f \in d : IsUnder(f.path, src) }
        Target(f) == dest \o SubSeq(f.path, Len(src) + 1, Len(f.path))
        blocked   == { f \in sources : /\ isfile(d, Target(f))
                                       /\ FileAt(d, Target(f)).locked }
        copied    == sources \ blocked
    IN  [disk |-> { g \in d : \A f \in copied : g.path # Target(f) }
                     \cup { File(Target(f), f.data, FALSE) : f \in copied },
         raised |-> blocked # {}]

\* the files under src, with the names of the model's files
SourceFiles ==
    { File(<<"src", "bar.txt">>, "bar", FALSE),
      File(<<"src", "assets", "a.qml">>, "a", FALSE),
      File(<<"src", "assets", "sub", "b.qml">>, "b", FALSE) }

\* what may be in the output directory before the copy and the clean-up
OptionalFiles ==
    { File(<<"out", "debug", "bar.txt">>, "old", FALSE),
      File(<<"out", "debug", "bar.txt">>, "old", TRUE),
      File(<<"out", "debug", "assets", "a.qml">>, "old", FALSE),
      File(<<"out", "debug", "assets", "keep.txt">>, "old", FALSE),
      File(<<"out", "debug", "main.cpp">>, "old", FALSE),
      File(<<"out", "debug", "main.cpp">>, "old", TRUE),
      File(<<"out", "debug", "util.c">>, "old", FALSE),
      File(<<"out", "debug", "main.o">>, "old", FALSE),
      File(<<"out", "debug", "app.exe">>, "old", FALSE),
      File(<<"out", "debug", "sub", "deep.o">>, "old", FALSE),
      File(<<"out", "release", "main.o">>, "old", FALSE) }

InitialDisks ==
    { SourceFiles \cup S : S \in { T \in SUBSET OptionalFiles :
                                      \A f, g \in T : f.path = g.path => f = g } }

\* manifests of one entry: Source is a path, Destination a text
FileToSlash       == [Source |-> <<"src", "bar.txt">>,
                      Destination |-> <<"/", "bar.txt">>, Type |-> "Generic"]
FileToSlashes     == [Source |-> <<"src", "bar.txt">>,
                      Destination |-> <<"/", "/", "sub", "/", "bar.txt">>,
                      Type |-> "Generic"]
FileToBackslash   == [Source |-> <<"src", "bar.txt">>,
                      Destination |-> <<"\\", "bar.txt">>, Type |-> "Generic"]
DirectoryToSlash  == [Source |-> <<"src", "assets">>,
                      Destination |-> <<"/", "assets">>, Type |-> "Generic"]

DiskManifests == { <<FileToSlash>>, <<FileToSlashes>>, <<FileToBackslash>>,
                   <<DirectoryToSlash>> }

(***************************************************************************)
(* QtCompiler.copy_sources_to_output and clean_build_files on the files,   *)
(* and the branches of process_finished that call them.                    *)
(***************************************************************************)
\* the suffix of the names of the model's files
Suffix(name) ==
    CASE name = "main.cpp"          -> "cpp"
      [] name = "util.c"            -> "c"
      [] name \in {"main.o", "deep.o"} -> "o"
      [] OTHER                      -> ""

patterns == << "cpp", "c", "o" >>

\* glob.glob(os.path.join(build_dir, pattern)): files of build_dir itself
glob(d, dir, pattern) ==
    { f \in d : Parent(f.path) = dir /\ Suffix(f.path[Len(f.path)]) = pattern }

\* the inner loop counting every file it meets
RECURSIVE RemoveAllCounted(_, _)
RemoveAllCounted(r, files) ==
    IF files = {} THEN r
    ELSE LET f    == CHOOSE g \in files : TRUE
             rest == files \ {f}
         IN  IF f.locked
             THEN RemoveAllCounted(
                      [c |-> emit_output(r.c, "[Error] Could not delete", 0,
                                         f.path, ""),
                       removed |-> r.removed + 1], rest)
             ELSE RemoveAllCounted(
                      [c |-> [r.c EXCEPT !.disk = @ \ {f}],
                       removed |-> r.removed + 1], rest)

\* the inner loop: os.remove, counted when it returns, reported when it raises
RECURSIVE RemoveAll(_, _)
RemoveAll(r, files) ==
    IF files = {} THEN r
    ELSE LET f    == CHOOSE g \in files : TRUE
             rest == files \ {f}
         IN  IF f.locked
             THEN RemoveAll(
                      [r EXCEPT !.c = emit_output(@, "[Error] Could not delete",
                                                  0, f.path, "")], rest)
             ELSE RemoveAll(
                      [c |-> [r.c EXCEPT !.disk = @ \ {f}],
                       removed |-> r.removed + 1], rest)

RECURSIVE CleanPatterns(_, _, _)
CleanPatterns(r, dir, i) ==
    IF i > Len(patterns) THEN r
    ELSE CleanPatterns(RemoveAll(r, glob(r.c.disk, dir, patterns[i])), dir, i + 1)

\* output_path exists: compile_qt_project made it
clean_build_files_on_disk(c) ==
    LET dir == build_dir(c.release)
        r   == CleanPatterns([c |-> c, removed |-> 0], dir, 1)
    IN  emit_output(r.c, "Cleaned build artifact files.", r.removed, dir, "")

\* the last branch of process_finished
succeed_on_disk(c) ==
    LET c1 == enter(emit_finished(c, build_dir(c.release)), "Succeeded", 0)
        c2 == IF c1.clean THEN clean_build_files_on_disk(c1) ELSE c1
    IN  emit_output(c2, "Packaging finished!", 0, <<>>, "")

RECURSIVE CopyLoopOnDisk(_, _, _, _)
CopyLoopOnDisk(c, entries, i, output_dir) ==
    IF i > Len(entries) THEN [c |-> c, done |-> TRUE]
    ELSE LET entry    == entries[i]
             src      == entry.Source
             dest_rel == entry.Destination
             dest     == path_join(output_dir, lstrip(dest_rel, {"/"}))
             r        == IF isfile(c.disk, src)
                         THEN copy2(c.disk, src, dest)
                         ELSE copytree(c.disk, src, dest)
         IN  IF src = <<>> \/ dest_rel = <<>>
             THEN CopyLoopOnDisk(emit_output(c, "Invalid entry, skipping", i,
                                             <<>>, ""),
                                 entries, i + 1, output_dir)
             ELSE IF isfile(c.disk, src) \/ isdir(c.disk, src)
                  THEN IF r.raised
                       THEN [c |-> enter(emit_error([c EXCEPT !.disk = r.disk],
                                                    "Failed to copy", i, dest, ""),
                                         "Failed", 0),
                             done |-> FALSE]
                       ELSE CopyLoopOnDisk(
                                emit_output([c EXCEPT !.disk = r.disk],
                                            "Copied", i, dest, ""),
                                entries, i + 1, output_dir)
                  ELSE CopyLoopOnDisk(c, entries, i + 1, output_dir)

\* Step 3 and, the copy done, the last branch (no QML dependency is listed)
copy_sources_on_disk(c) ==
    LET c1 == [c EXCEPT !.copy = TRUE]
        c2 == enter(emit_output(c1, "Copying external sources...", 0, <<>>, ""),
                    "CopyingExternalSources", 0)
        r  == CopyLoopOnDisk(c2, c2.sources, 1, build_dir(c2.release))
    IN  IF r.done THEN succeed_on_disk(r.c) ELSE r.c

\* process_finished with make and windeployqt done and no QML dependency
process_finished_on_disk(c) ==
    IF ExitedNormally(c.proc)
    THEN IF copy_needed(c) THEN copy_sources_on_disk(c) ELSE succeed_on_disk(c)
    ELSE report_failure(c)

(***************************************************************************)
(* QtCompiler.compile_qt_project                                           *)
(***************************************************************************)
qmake_unchecked(c) == TRUE

\* qmake_exe.exists()
qmake_exists(c) == c.fs.qmake

compile_qt_project(c, cfg, killcode) ==
    LET c0 == IF c.proc.state # "NotRunning" THEN stop_process(c, killcode) ELSE c
        c1 == [c0 EXCEPT !.make = FALSE, !.deploy = FALSE, !.copy = FALSE,
                         !.qml = 0,
                         !.sources = cfg.sources, !.release = cfg.release,
                         !.clean = cfg.clean,
                         !.files = QmlDestinations(cfg.sources),
                         \* the histories start again with the new run
                         !.ev = <<>>, !.st = <<>>,
                         !.sp = <<>>, !.delivered = <<>>,
                         !.fresh = (c.proc.state = "NotRunning"),
                         !.proc.current = FALSE,
                         \* env["PATH"] += ";" + qt_bin + ";" + mingw_bin
                         !.proc.PATH = InheritedPath \o <<qt_bin, mingw_bin>>]
        qmake_exe == Join(qt_bin, "qmake.exe")
        args == <<project_file, <<"CONFIG+=" , config_dir(cfg.release)>> >>
    IN  IF ~qmake_exists(c1)
        THEN enter(emit_error(c1, "qmake not found", 0, qmake_exe, ""), "Failed", 0)
        ELSE LET c2 == enter(emit_output(c1, "Running qmake...", 0, <<>>, ""),
                             "Configuring", 0)
                 c3 == [c2 EXCEPT !.proc.workingDirectory = output_path]
             IN  start(c3, "qmake.exe", args, c1.fs.qmake)

(***************************************************************************)
(* QtPackage.packaging_toggle: the guards on the four paths.               *)
(***************************************************************************)
\* the four paths packaging_toggle tests, in the order it tests them, and the
\* line it appends to the terminal when the path is empty
RequiredPaths == << "compiler_path", "mingw_path", "qt_project_file_path",
                    "qt_project_output_path" >>

RefusalLines == << "No valid Qt compiler selected.",
                   "No valid MinGW path selected.",
                   "No project file selected.",
                   "No output directory selected." >>

\* which of the four paths are set (TRUE) or empty (FALSE)
PathSettings == [ {RequiredPaths[i] : i \in DOMAIN RequiredPaths} -> BOOLEAN ]

AllSet(set) == \A i \in DOMAIN RequiredPaths : set[RequiredPaths[i]]

\* package_terminal.append(text) in packaging_toggle: a line of the terminal
\* that no signal of the compiler carries
terminal_append(c, text) == [c EXCEPT !.terminal = Append(@, text)]

\* the first empty path stops packaging_toggle: one line, then return
refuse(c, set) ==
    LET i == CHOOSE k \in DOMAIN RequiredPaths :
                 /\ ~set[RequiredPaths[k]]
                 /\ \A j \in 1..(k - 1) : set[RequiredPaths[j]]
    IN  terminal_append(c, RefusalLines[i])

(***************************************************************************)
(* The scan for Qt installations (QtPackage.scan_qt_path and its worker    *)
(* thread).  A path is the tuple of its components; a display name is the  *)
(* tuple of the parts its f-string puts together; a dict is the sequence   *)
(* of its <<key, value>> items in insertion order.                         *)
(***************************************************************************)
DefaultFolder == "C:\\Qt"
Folders == {DefaultFolder, "D:\\Qt"}

\* compiler directories <folder>/<version>/<name>: whether bin/qmake.exe
\* exists and what "qmake -v" does (the version of its "Using Qt version"
\* line, "NoLine" without such a line, "Raises" when it cannot be run or
\* exits with a failure)
CompilerDir(version, name, qmake, qmake_v) ==
    [version |-> version, name |-> name, qmake |-> qmake, qmake_v |-> qmake_v]

\* directories <folder>/Tools/<name>: whether bin/g++.exe and
\* bin/mingw32-make.exe are files
ToolDir(name, gpp, make) == [name |-> name, gpp |-> gpp, make |-> make]

NoFolder == [is_dir |-> FALSE, tools |-> FALSE, compilers |-> {}, mingws |-> {}]

NoTools ==
    [is_dir |-> TRUE, tools |-> FALSE,
     compilers |-> {CompilerDir("6.5.0", "mingw_64", TRUE, "6.5.0")},
     mingws |-> {}]

SoundFolder ==
    [is_dir |-> TRUE, tools |-> TRUE,
     compilers |-> {CompilerDir("5.15.2", "mingw81_64", TRUE, "5.15.2"),
                    CompilerDir("6.5.0", "MSVC2019_64", TRUE, "6.5.0"),
                    CompilerDir("6.5.0", "Src", TRUE, "6.5.0"),
                    CompilerDir("Docs", "mingw_64", TRUE, "6.5.0")},
     mingws |-> {ToolDir("mingw1120_64", TRUE, TRUE),
                 ToolDir("MinGW810_32", TRUE, TRUE),
                 ToolDir("CMake_64", TRUE, TRUE)}]

BrokenFolder ==
    [is_dir |-> TRUE, tools |-> TRUE,
     compilers |-> {CompilerDir("6.5.0", "mingw_64", TRUE, "Raises"),
                    CompilerDir("6.6.0", "mingw_64", TRUE, "Raises"),
                    CompilerDir("6.6.0", "msvc2019_64", TRUE, "NoLine"),
                    CompilerDir("5.15.2", "mingw81_64", FALSE, "Raises")},
     mingws |-> {ToolDir("mingw1120_64", TRUE, FALSE),
                 ToolDir("mingw810_32", FALSE, TRUE)}]

Trees == {NoFolder, NoTools, SoundFolder, BrokenFolder}

\* no folder to scan is there
NoQt == [folder \in Folders |-> NoFolder]

\* a dict
Keys(d) == {d[i][1] : i \in DOMAIN d}
DictSet(d, key, value) ==
    IF key \in Keys(d)
    THEN [i \in DOMAIN d |-> IF d[i][1] = key THEN <<key, value>> ELSE d[i]]
    ELSE Append(d, <<key, value>>)

\* version[0].isdigit() on the names the trees use
BeginsWithDigit(version) == version \in {"5.15.2", "6.5.0", "6.6.0"}

\* dir_name.lower().startswith(("mingw", "msvc")) on the names the trees use
BeginsWithValidCompiler(name) ==
    name \in {"mingw_64", "mingw81_64", "MSVC2019_64", "msvc2019_64"}

\* d.name.lower().startswith("mingw")
BeginsWithMingw(name) == name \in {"mingw1120_64", "MinGW810_32", "mingw810_32"}

\* "64" in mingw_dir.name
Has64(name) == name \in {"mingw1120_64", "CMake_64"}

is_qt_compiler_dir(dir) == BeginsWithValidCompiler(dir.name) /\ dir.qmake

get_qt_info(dir) ==
    CASE dir.qmake_v = "Raises" -> <<dir.name, "(invalid qmake)">>
      [] dir.qmake_v = "NoLine" -> <<"Qt", "Unknown", dir.name>>
      [] OTHER                  -> <<"Qt", dir.qmake_v, dir.name>>

None == <<>>

\* check_compiler of find_qt_versions
check_compiler(folder, dir) ==
    IF is_qt_compiler_dir(dir)
    THEN <<get_qt_info(dir), <<folder, dir.version, dir.name, "bin">> >>
    ELSE None

\* check_mingw of find_qt_mingw_compilers
check_mingw(folder, dir) ==
    IF dir.gpp /\ dir.make
    THEN << <<dir.name, IF Has64(dir.name) THEN "64-bit" ELSE "32-bit">>,
            <<folder, "Tools", dir.name, "bin">> >>
    ELSE None

\* the candidates find_qt_versions submits
candidates(tree) == {dir \in tree.compilers : BeginsWithDigit(dir.version)}

\* the directories find_qt_mingw_compilers submits
mingw_dirs(tree) == {dir \in tree.mingws : BeginsWithMingw(dir.name)}

is_dir_unchecked(tree) == TRUE

\* path.is_dir() and tools_dir.is_dir()
is_dir(tree) == tree.is_dir
tools_is_dir(tree) == tree.is_dir /\ tree.tools

first_completed(thread) == thread.completed = <<>>

\* the loop over as_completed(futures) has ended
as_completed_ended(thread) == thread.running = {} /\ thread.completed = <<>>

\* threading.Thread(target=self.scan_qt_path_thread, args=(folder,))
Thread(folder) ==
    [pc |-> "find_qt_versions", folder |-> folder, running |-> {},
     completed |-> <<>>, qt_compiler |-> <<>>, qt_mingw |-> <<>>,
     checked |-> {}]

ScanFinishedEvent(qt_versions, mingw) ==
    [qt_versions |-> qt_versions, qt_mingw |-> mingw]

ComboBox(items, placeholder) == [items |-> items, placeholder |-> placeholder]

\* clear() and the addItem()s or the setPlaceholderText() of
\* refresh_qt_version_combobox
Refilled(box, dict, placeholder) ==
    IF dict # <<>>
    THEN ComboBox([i \in DOMAIN dict |-> dict[i][1]], box.placeholder)
    ELSE ComboBox(<<>>, placeholder)

(***************************************************************************)
(* Actions.                                                                *)
(***************************************************************************)
\* the two objects after construction
Constructed ==
    /\ is_compiling = FALSE
    /\ _make_started = FALSE
    /\ _deploy_started = FALSE
    /\ _copy_sources_started = FALSE
    /\ _qml_dll_deploy_count = 0
    /\ _qml_dll_need_deploy_files = <<>>
    /\ external_sources = <<>>
    /\ is_release = FALSE
    /\ need_clean = FALSE
    /\ process = NoProcess
    /\ events = <<>>
    /\ stages = <<>>
    /\ started = <<>>
    /\ fresh = TRUE
    /\ delivered = <<>>
    /\ package_terminal = <<>>
    /\ resolved = <<>>
    /\ qt_compiler = <<>>
    /\ qt_mingw = <<>>
    /\ env_button = "Scanning..."
    /\ env_qt_version_combo_box = ComboBox(<<>>, "")
    /\ env_qt_mingw_combo_box = ComboBox(<<>>, "")
    /\ scan_thread = Thread(DefaultFolder)
    /\ posted = <<>>

Init ==
    /\ Constructed
    /\ fs \in FileSystems
    /\ qt_root = NoQt
    /\ disk = {}
    /\ project_lines = ProjectFileLines

\* packaging_toggle with is_compiling False and the four paths set, the
\* rest of the configuration being one of configs
Packaging(configs) ==
    /\ ~is_compiling
    /\ \E cfg \in configs, killcode \in KillCodes(process) :
          LET c == terminal_append(Self, "Starting packaging with")
          IN  Becomes([compile_qt_project(c, cfg, killcode)
                          EXCEPT !.compiling = TRUE])

PackagingStart == Packaging(Configs)

\* packaging_toggle with is_compiling False and one of the four paths empty
PackagingRefused ==
    /\ ~is_compiling
    /\ \E set \in PathSettings :
          /\ ~AllSet(set)
          /\ Becomes(refuse(Self, set))

\* packaging_toggle with is_compiling True
PackagingStop ==
    /\ is_compiling
    /\ \E killcode \in KillCodes(process) :
          Becomes(stop_process([Self EXCEPT !.compiling = FALSE], killcode))

\* the external process ends by itself
ProcessExits ==
    /\ process.state = "Running"
    /\ process.alive
    /\ \E o \in Outcomes :
          process' = [process EXCEPT !.alive = FALSE, !.exitStatus = o.status,
                                     !.exitCode = o.code]
    /\ UNCHANGED <<is_compiling, _make_started, _deploy_started,
                   _copy_sources_started, _qml_dll_deploy_count,
                   _qml_dll_need_deploy_files, external_sources, is_release,
                   need_clean, fs, events, stages, started, fresh, delivered,
                   disk, project_lines, resolved>>
    /\ UNCHANGED scanvars
    /\ package_terminal' = <<>>

MaxArtifacts == 1     \* files matching the clean-up patterns

\* what the file operations of one handler meet: which entry's copy raises
\* (0: none), how many artifacts the clean-up finds and cannot delete
IOChoices == { io \in [copyFail : 0..Len(external_sources),
                       artifacts : 0..MaxArtifacts,
                       undeletable : 0..MaxArtifacts] :
                 io.undeletable <= io.artifacts }

\* the event loop handles the exit: QProcess emits finished
ProcessFinishedEvent ==
    /\ process.state = "Running"
    /\ ~process.alive
    /\ \E io \in IOChoices :
          LET c == [drain(Self) EXCEPT !.proc.state = "NotRunning",
                                       !.delivered = Append(@,
                                           [program |-> process.program,
                                            current |-> process.current,
                                            status  |-> process.exitStatus,
                                            code    |-> process.exitCode])]
          IN  Becomes(process_finished(c, io))

MaxWrites == 2        \* chunks the children write in one behaviour

\* the running child writes a chunk to one of its channels
ProcessWrites ==
    /\ process.state = "Running"
    /\ process.alive
    /\ process.wrote < MaxWrites
    /\ \E channel \in Channels, utf8 \in BOOLEAN :
          LET chunk == Chunk(process.wrote + 1, channel, utf8)
          IN  process' = [process EXCEPT
                            !.wrote = @ + 1,
                            !.out = IF channel = "stdout"
                                    THEN Append(@, chunk) ELSE @,
                            !.err = IF channel = "stderr"
                                    THEN Append(@, chunk) ELSE @]
    /\ UNCHANGED <<is_compiling, _make_started, _deploy_started,
                   _copy_sources_started, _qml_dll_deploy_count,
                   _qml_dll_need_deploy_files, external_sources, is_release,
                   need_clean, fs, events, stages, started, fresh, delivered,
                   disk, project_lines, resolved>>
    /\ UNCHANGED scanvars
    /\ package_terminal' = <<>>

\* the event loop delivers readyReadStandardOutput
ReadyReadStandardOutput ==
    /\ process.out # <<>>
    /\ Becomes(handle_stdout(Self))

\* the event loop delivers readyReadStandardError
ReadyReadStandardError ==
    /\ process.err # <<>>
    /\ Becomes(handle_stderr(Self))

\* The pipeline as its caller drives it with the four paths set.
Next ==
    \/ PackagingStart
    \/ PackagingStop
    \/ ProcessExits
    \/ ProcessFinishedEvent

Spec == Init /\ [][Next]_vars

\* One run, never stopped, of a project with a plain file and a QML DLL to
\* copy, with every tool in place and children that write to their channels.
InitWithOutput == Init /\ \A p \in Paths : fs[p]

OutputConfigs == [sources : {<<Plain, Qml>>}, release : BOOLEAN, clean : BOOLEAN]

PackagingStartOnce == stages = <<>> /\ Packaging(OutputConfigs)

NextWithOutput ==
    \/ PackagingStartOnce
    \/ ProcessWrites
    \/ ReadyReadStandardOutput
    \/ ReadyReadStandardError
    \/ ProcessExits
    \/ ProcessFinishedEvent

SpecWithOutput == InitWithOutput /\ [][NextWithOutput]_vars

(***************************************************************************)
(* The resolution of the executable name, called on a project file.        *)
(***************************************************************************)
MaxCalls == 2         \* calls of get_exe_name_from_pro on one project file

AllInPlace == [p \in Paths |-> TRUE]

InitExeName ==
    /\ Constructed
    /\ qt_root = NoQt
    /\ fs = AllInPlace
    /\ disk = {}
    /\ project_lines \in ProjectFiles

\* self.get_exe_name_from_pro(self.project_file)
ResolveExeName ==
    /\ Len(resolved) < MaxCalls
    /\ resolved' = Append(resolved,
                          get_exe_name_from_pro(ProjectFileName, project_lines))
    /\ UNCHANGED <<is_compiling, _make_started, _deploy_started,
                   _copy_sources_started, _qml_dll_deploy_count,
                   _qml_dll_need_deploy_files, external_sources, is_release,
                   need_clean, process, fs, events, stages, started, fresh,
                   delivered, package_terminal, disk, project_lines>>
    /\ UNCHANGED scanvars

NextExeName == ResolveExeName

SpecExeName == InitExeName /\ [][NextExeName]_vars

(***************************************************************************)
(* The end of a run on the files: windeployqt has exited normally, the     *)
(* manifest is copied, or the build directory is cleaned.                  *)
(***************************************************************************)
FileRuns == [sources : DiskManifests, release : BOOLEAN, clean : {FALSE}]
            \cup [sources : {<<>>}, release : BOOLEAN, clean : {TRUE}]

InitFiles ==
    /\ Constructed
    /\ qt_root = NoQt
    /\ fs = AllInPlace
    /\ project_lines = ProjectFileLines
    /\ disk \in InitialDisks

FinishRun ==
    /\ stages = <<>>
    /\ \E run \in FileRuns :
          LET c == [Self EXCEPT !.sources = run.sources,
                                !.release = run.release, !.clean = run.clean,
                                !.make = TRUE, !.deploy = TRUE]
          IN  Becomes(process_finished_on_disk(c))

NextFiles == FinishRun

SpecFiles == InitFiles /\ [][NextFiles]_vars

\* The same with the start requests that packaging_toggle refuses.  A refused
\* start changes nothing but the terminal, so it adds no behaviour of the
\* pipeline to those of Spec.
NextWithRefusals ==
    \/ Next
    \/ PackagingRefused

SpecWithRefusals == Init /\ [][NextWithRefusals]_vars

(***************************************************************************)
(* The scan for Qt installations: the worker thread, its pool of checks    *)
(* and the event loop of the window.                                       *)
(***************************************************************************)
pipelinevars == <<is_compiling, _make_started, _deploy_started,
                  _copy_sources_started, _qml_dll_deploy_count,
                  _qml_dll_need_deploy_files, external_sources, is_release,
                  need_clean, process, fs, events, stages, started, fresh,
                  delivered, package_terminal, disk, project_lines, resolved>>

InitScan ==
    /\ Constructed
    /\ fs = AllInPlace
    /\ disk = {}
    /\ project_lines = ProjectFileLines
    /\ qt_root \in [Folders -> Trees]

\* a step of the worker thread
Runs(thread) ==
    /\ scan_thread' = thread
    /\ UNCHANGED <<qt_compiler, qt_mingw, env_button, env_qt_version_combo_box,
                   env_qt_mingw_combo_box, posted, qt_root>>
    /\ UNCHANGED pipelinevars

\* the user picks a folder in the dialog of select_qt_folder, which calls
\* scan_qt_path; the button is disabled while a scan goes on, and no
\* ScanFinishedEvent is pending for processEvents() once it is enabled
select_qt_folder ==
    /\ env_button = "Browse..."
    /\ \E folder \in Folders :
          /\ env_button' = "Scanning..."
          /\ scan_thread' = Thread(folder)
    /\ UNCHANGED <<qt_compiler, qt_mingw, env_qt_version_combo_box,
                   env_qt_mingw_combo_box, posted, qt_root>>
    /\ UNCHANGED pipelinevars

\* find_qt_versions up to the submission of the checks; os.listdir raises
\* on a path that is no directory
find_qt_versions ==
    /\ scan_thread.pc = "find_qt_versions"
    /\ LET tree == qt_root[scan_thread.folder]
       IN  IF ~is_dir(tree)
           THEN Runs([scan_thread EXCEPT !.pc = "find_qt_mingw_compilers"])
           ELSE IF tree.is_dir
                THEN Runs([scan_thread EXCEPT !.pc = "check_compiler",
                                              !.running = candidates(tree)])
                ELSE Runs([scan_thread EXCEPT !.pc = "raised"])

\* a thread of the pool ends its check_compiler
CheckCompilerEnds ==
    /\ scan_thread.pc = "check_compiler"
    /\ \E dir \in scan_thread.running :
          Runs([scan_thread EXCEPT
                  !.running = @ \ {dir},
                  !.checked = @ \cup {dir},
                  !.completed = Append(@, check_compiler(scan_thread.folder,
                                                         dir))])

\* the loop over as_completed of find_qt_versions takes a result
CollectCompiler ==
    /\ scan_thread.pc = "check_compiler"
    /\ scan_thread.completed # <<>>
    /\ LET result == Head(scan_thread.completed)
       IN  Runs([scan_thread EXCEPT
                   !.completed = Tail(@),
                   !.qt_compiler = IF result # None
                                   THEN DictSet(@, result[1], result[2])
                                   ELSE @])

\* find_qt_versions returns
ReturnQtVersions ==
    /\ scan_thread.pc = "check_compiler"
    /\ as_completed_ended(scan_thread)
    /\ Runs([scan_thread EXCEPT !.pc = "find_qt_mingw_compilers",
                                !.running = {}, !.completed = <<>>])

\* find_qt_mingw_compilers up to the submission of the checks
find_qt_mingw_compilers ==
    /\ scan_thread.pc = "find_qt_mingw_compilers"
    /\ LET tree == qt_root[scan_thread.folder]
       IN  IF ~tools_is_dir(tree)
           THEN Runs([scan_thread EXCEPT !.pc = "postEvent"])
           ELSE Runs([scan_thread EXCEPT !.pc = "check_mingw",
                                         !.running = mingw_dirs(tree)])

\* a thread of the pool ends its check_mingw
CheckMingwEnds ==
    /\ scan_thread.pc = "check_mingw"
    /\ \E dir \in scan_thread.running :
          Runs([scan_thread EXCEPT
                  !.running = @ \ {dir},
                  !.checked = @ \cup {dir},
                  !.completed = Append(@, check_mingw(scan_thread.folder, dir))])

\* the loop over as_completed of find_qt_mingw_compilers takes a result
CollectMingw ==
    /\ scan_thread.pc = "check_mingw"
    /\ scan_thread.completed # <<>>
    /\ LET result == Head(scan_thread.completed)
       IN  Runs([scan_thread EXCEPT
                   !.completed = Tail(@),
                   !.qt_mingw = IF result # None
                                THEN DictSet(@, result[1], result[2])
                                ELSE @])

\* find_qt_mingw_compilers returns
ReturnQtMingw ==
    /\ scan_thread.pc = "check_mingw"
    /\ as_completed_ended(scan_thread)
    /\ Runs([scan_thread EXCEPT !.pc = "postEvent",
                                !.running = {}, !.completed = <<>>])

\* QApplication.instance().postEvent(self, ScanFinishedEvent(...))
postEvent ==
    /\ scan_thread.pc = "postEvent"
    /\ scan_thread' = [scan_thread EXCEPT !.pc = "finished"]
    /\ posted' = Append(posted, ScanFinishedEvent(scan_thread.qt_compiler,
                                                  scan_thread.qt_mingw))
    /\ UNCHANGED <<qt_compiler, qt_mingw, env_button, env_qt_version_combo_box,
                   env_qt_mingw_combo_box, qt_root>>
    /\ UNCHANGED pipelinevars

\* QtPackage.event on a ScanFinishedEvent: refresh_qt_version_combobox
event ==
    /\ posted # <<>>
    /\ LET e == Head(posted)
       IN  /\ qt_compiler' = e.qt_versions
           /\ qt_mingw' = e.qt_mingw
           /\ env_qt_version_combo_box' =
                 Refilled(env_qt_version_combo_box, e.qt_versions, "No Qt Found")
           /\ env_qt_mingw_combo_box' =
                 Refilled(env_qt_mingw_combo_box, e.qt_mingw, "No MinGW Found")
    /\ env_button' = "Browse..."
    /\ posted' = Tail(posted)
    /\ UNCHANGED <<scan_thread, qt_root>>
    /\ UNCHANGED pipelinevars

scan_qt_path_thread ==
    \/ find_qt_versions
    \/ CheckCompilerEnds
    \/ CollectCompiler
    \/ ReturnQtVersions
    \/ find_qt_mingw_compilers
    \/ CheckMingwEnds
    \/ CollectMingw
    \/ ReturnQtMingw
    \/ postEvent

NextScan ==
    \/ select_qt_folder
    \/ scan_qt_path_thread
    \/ event

\* The thread and its pool are scheduled by the system and the event loop
\* of the window handles every event posted to it.
SpecScan ==
    /\ InitScan
    /\ [][NextScan]_vars
    /\ WF_vars(scan_qt_path_thread)
    /\ WF_vars(event)

(***************************************************************************)
(* Reading the histories.                                                  *)
(***************************************************************************)
IsError(e)    == e.kind = "Error"
IsFinished(e) == e.kind = "Finished"
IsTerminal(e) == e.kind \in {"Error", "Finished"}

Errors         == SelectSeq(events, IsError)
Finisheds      == SelectSeq(events, IsFinished)
TerminalEvents == SelectSeq(events, IsTerminal)

IsPrefix(s, t) == Len(s) <= Len(t) /\ s = SubSeq(t, 1, Len(s))

RunStarted    == stages # <<>>
Quiescent     == process.state = "NotRunning"
StopRequested == \E i \in DOMAIN events : events[i].msg = "Build stopped by user"
CopyFailed    == \E i \in DOMAIN events : events[i].msg = "Failed to copy"
AllExist      == \A p \in Paths : fs[p]
AllDeliveredOk ==
    \A i \in DOMAIN delivered :
        delivered[i].status = "NormalExit" /\ delivered[i].code = 0
Entered(name) == \E i \in DOMAIN stages : stages[i].name = name
Started(program) == \E i \in DOMAIN started : started[i].program = program

IsBuildFailure(e) == IsError(e) /\ e.msg = "Build failed with exit code"
IsStopError(e)    == IsError(e) /\ e.msg = "Build stopped by user"

\* A run in which nothing goes wrong: it began with no process running, every
\* path exists, every completion reported a normal exit with code 0, no copy
\* raised and the user asked for no stop.
HappyRun == fresh /\ AllExist /\ AllDeliveredOk /\ ~StopRequested /\ ~CopyFailed

(***************************************************************************)
(* C1.  A run emits at most one terminal event (Finished or Error),        *)
(* whatever the process outcomes and stop requests.                        *)
(***************************************************************************)
C1_AtMostOneTerminalEvent == Len(TerminalEvents) <= 1

(***************************************************************************)
(* C2.  Every run emits a terminal event once its processes have exited    *)
(* and their completions have been handled: a run with no process left     *)
(* running has emitted Finished or Error.                                  *)
(***************************************************************************)
C2_EndedRunHasTerminalEvent ==
    (RunStarted /\ Quiescent) => Len(TerminalEvents) >= 1

(***************************************************************************)
(* C3.  No Finished event follows an Error event of the same run.          *)
(***************************************************************************)
C3_NoFinishedAfterError ==
    \A i, j \in DOMAIN events :
        (i < j /\ IsError(events[i])) => ~IsFinished(events[j])

(***************************************************************************)
(* C4.  In a run where nothing goes wrong, with the manifest of one plain  *)
(* and one QML entry, the stages are entered in the order Configuring,     *)
(* Building, Deploying, CopyingExternalSources, DeployingQmlDependency[0], *)
(* Succeeded; the run ends only at Succeeded, and then exactly one         *)
(* Finished has been emitted, whose payload is out/release when the        *)
(* release flag is set and out/debug otherwise.                            *)
(***************************************************************************)
PlainAndQmlStages ==
    << Stage("Configuring", 0), Stage("Building", 0), Stage("Deploying", 0),
       Stage("CopyingExternalSources", 0), Stage("DeployingQmlDependency", 0),
       Stage("Succeeded", 0) >>

C4_PlainAndQmlRun ==
    (RunStarted /\ HappyRun /\ external_sources = <<Plain, Qml>>) =>
        /\ IsPrefix(stages, PlainAndQmlStages)
        /\ Quiescent => stages = PlainAndQmlStages
        /\ Len(Errors) = 0
        /\ Len(Finisheds) = (IF Entered("Succeeded") THEN 1 ELSE 0)
        /\ \A i \in DOMAIN events :
               IsFinished(events[i]) =>
                   events[i].path = (IF is_release THEN <<"out", "release">>
                                                   ELSE <<"out", "debug">>)

C4_Witness ==
    /\ HappyRun
    /\ external_sources = <<Plain, Qml>>
    /\ stages = PlainAndQmlStages
    /\ ~is_release
    /\ Len(Finisheds) = 1

(***************************************************************************)
(* C5.  In a run where nothing goes wrong, with an empty manifest, the     *)
(* stages are Configuring, Building, Deploying, Succeeded (no copy stage,  *)
(* no QML stage) and exactly three processes are started.                  *)
(***************************************************************************)
EmptyManifestStages ==
    << Stage("Configuring", 0), Stage("Building", 0), Stage("Deploying", 0),
       Stage("Succeeded", 0) >>

C5_EmptyManifestRun ==
    (RunStarted /\ HappyRun /\ external_sources = <<>>) =>
        /\ IsPrefix(stages, EmptyManifestStages)
        /\ ~Entered("CopyingExternalSources")
        /\ ~Entered("DeployingQmlDependency")
        /\ Len(started) <= 3
        /\ Quiescent =>
              /\ stages = EmptyManifestStages
              /\ Len(started) = 3
              /\ Len(Finisheds) = 1

C5_Witness ==
    /\ HappyRun
    /\ external_sources = <<>>
    /\ stages = EmptyManifestStages
    /\ Len(started) = 3

(***************************************************************************)
(* C6.  When the make process of the run exits with a non-zero code, the   *)
(* failure is reported by exactly one Error, the build-failure message     *)
(* with that exit code; the Deploying stage is not entered, no deploy      *)
(* process is started and no Finished is emitted.  It is the only Error of *)
(* the run unless the user also asked for a stop, whose own Error is then  *)
(* the only other one.                                                     *)
(***************************************************************************)
C6_BuildFailure ==
    \A i \in DOMAIN delivered :
        LET d == delivered[i]
            reports == SelectSeq(events, IsBuildFailure)
        IN  (d.program = "mingw32-make.exe" /\ d.current /\ d.code # 0) =>
               /\ Len(reports) = 1
               /\ reports[1].code = d.code
               /\ \A k \in DOMAIN events :
                     IsError(events[k]) =>
                        IsBuildFailure(events[k]) \/ IsStopError(events[k])
               /\ ~StopRequested => Len(Errors) = 1
               /\ Len(Finisheds) = 0
               /\ ~Entered("Deploying")
               /\ ~Started("windeployqt.exe")
               /\ Quiescent

C6_Witness ==
    /\ ~StopRequested
    /\ \E i \in DOMAIN delivered :
          /\ delivered[i].program = "mingw32-make.exe"
          /\ delivered[i].current
          /\ delivered[i].status = "NormalExit"
          /\ delivered[i].code = MaxExitCode
    /\ Len(Errors) = 1

(***************************************************************************)
(* C7.  When the qmake process of the run exits with a non-zero code, the  *)
(* pipeline goes to Failed and emits an Error that names the configure     *)
(* stage and carries that exit code; Building is not entered.              *)
(***************************************************************************)
C7_ConfigureFailure ==
    \A i \in DOMAIN delivered :
        LET d == delivered[i]
        IN  (d.program = "qmake.exe" /\ d.current /\ d.status = "NormalExit"
                /\ d.code # 0) =>
               /\ Entered("Failed")
               /\ \E k \in DOMAIN events :
                     /\ IsError(events[k])
                     /\ events[k].code = d.code
                     /\ events[k].msg \notin {"Build failed with exit code",
                                              "Deployment failed with exit code"}
               /\ ~Entered("Building")

(***************************************************************************)
(* C8.  When a windeployqt process of the run (the Deploying stage or a    *)
(* DeployingQmlDependency stage) exits with a non-zero code, the Error     *)
(* names the deployment stage, not the build stage, and carries the code.  *)
(***************************************************************************)
C8_DeployFailureNamesDeployment ==
    \A i \in DOMAIN delivered :
        LET d == delivered[i]
        IN  (d.program = "windeployqt.exe" /\ d.current
                /\ d.status = "NormalExit" /\ d.code # 0 /\ ~StopRequested) =>
               /\ Len(Errors) >= 1
               /\ \A k \in DOMAIN events :
                     IsError(events[k]) =>
                        /\ events[k].msg = "Deployment failed with exit code"
                        /\ events[k].code = d.code

(***************************************************************************)
(* C9.  When a process of the run terminates abnormally, in any stage and  *)
(* with any exit code, the pipeline goes to Failed, emits an Error and     *)
(* starts no further process.                                              *)
(***************************************************************************)
C9_AbnormalExitFails ==
    \A i \in DOMAIN delivered :
        LET d == delivered[i]
        IN  (d.current /\ d.status = "CrashExit" /\ ~StopRequested) =>
               /\ Entered("Failed")
               /\ Len(Errors) >= 1
               /\ Quiescent

Refused(lines) ==
    \E i \in DOMAIN RefusalLines : lines = <<RefusalLines[i]>>

C11_RefusedStartEmitsOneError ==
    [][ Refused(package_terminal') =>
           /\ process' = process
           /\ started' = started
           /\ Len(SelectSeq(events', IsError)) = Len(Errors) + 1 ]_vars

(***************************************************************************)
(* C12.  Cancellation mid-Building: when the stop request comes while the  *)
(* make process is running, the run emits exactly one Error, the           *)
(* cancellation Error, also counting what the handling of the killed       *)
(* process's completion emits; and a run that has just started, at         *)
(* Configuring, has no stage flag set and its QML index at 0.              *)
(***************************************************************************)
CancelledMidBuilding ==
    /\ fresh
    /\ Len(stages) >= 3
    /\ stages[2].name = "Building"
    /\ stages[3].name = "Cancelled"

C12_CancelMidBuilding ==
    /\ CancelledMidBuilding =>
          /\ Len(Errors) = 1
          /\ IsStopError(Errors[1])
    /\ stages = << Stage("Configuring", 0) >> =>
          /\ ~_make_started
          /\ ~_deploy_started
          /\ ~_copy_sources_started
          /\ _qml_dll_deploy_count = 0

(***************************************************************************)
(* C13.  After a stop request no further stage is entered, no process is   *)
(* started and no Finished is emitted until a new run is issued, also when *)
(* the completion of the stopped process is handled after the stop and     *)
(* reports a normal exit with code 0.  (Every start of a process enters a  *)
(* stage, so the stages after Cancelled show the processes started.)       *)
(***************************************************************************)
C13_StoppedStaysStopped ==
    /\ \A i, j \in DOMAIN stages :
          (i < j /\ stages[i].name = "Cancelled") =>
              stages[j].name \in {"Cancelled", "Failed"}
    /\ \A i, j \in DOMAIN events :
          (i < j /\ IsStopError(events[i])) => ~IsFinished(events[j])

(***************************************************************************)
(* C14.  When stop_process returns, the make-started, deploy-started and   *)
(* copy-started flags are all false and the QML deploy index is 0.         *)
(***************************************************************************)
C14_StopClearsFlags ==
    (stages # <<>> /\ stages[Len(stages)].name = "Cancelled") =>
        /\ ~_make_started
        /\ ~_deploy_started
        /\ ~_copy_sources_started
        /\ _qml_dll_deploy_count = 0

(***************************************************************************)
(* C15.  The pipeline owns one QProcess, so at most one process runs at a  *)
(* time.  When compile_qt_project is called while a process of an earlier  *)
(* run is still running, that process is stopped and the new run's qmake   *)
(* process is started: a run that has entered Configuring has started      *)
(* qmake.exe, as its first process.                                        *)
(***************************************************************************)
C15_NewRunStartsConfigure ==
    Entered("Configuring") =>
        /\ started # <<>>
        /\ started[1].program = "qmake.exe"

(***************************************************************************)
(* C16.  No automatic retries: in one run qmake.exe, mingw32-make.exe and  *)
(* the windeployqt.exe of the Deploying stage are each started at most     *)
(* once, and the windeployqt.exe of the QML stage at most once per QML     *)
(* entry of the manifest; once a stage has failed no process is running    *)
(* and no stage that starts a process is entered any more in that run.     *)
(***************************************************************************)
StartsOf(program) ==
    Len(SelectSeq(started, LAMBDA r : r.program = program))

DeployStarts ==
    Len(SelectSeq(started,
                  LAMBDA r : r.program = "windeployqt.exe" /\ Len(r.args) = 1))

QmlStarts ==
    SelectSeq(started, LAMBDA r : r.program = "windeployqt.exe" /\ Len(r.args) = 3)

QmlStages ==
    SelectSeq(stages, LAMBDA st : st.name = "DeployingQmlDependency")

\* the manifest entries flagged as QML, whatever case and blanks the flag has
IsQmlFlagged(entry) == entry.Type \in {"QML", " qml "}
QmlFlagged == SelectSeq(external_sources, IsQmlFlagged)

C16_NoRetries ==
    /\ StartsOf("qmake.exe") <= 1
    /\ StartsOf("mingw32-make.exe") <= 1
    /\ DeployStarts <= 1
    /\ Len(QmlStarts) <= Len(QmlFlagged)
    /\ \A k \in 0..(Len(QmlFlagged) - 1) :
          Len(SelectSeq(QmlStages, LAMBDA st : st.i = k)) <= 1
    /\ Entered("Failed") => Quiescent
    /\ \A i, j \in DOMAIN stages :
          (i < j /\ stages[i].name = "Failed") =>
              stages[j].name \in {"Failed", "Cancelled"}

C16_Witness ==
    /\ Entered("Failed")
    /\ ~StopRequested
    /\ StartsOf("qmake.exe") = 1
    /\ StartsOf("mingw32-make.exe") = 1
    /\ DeployStarts = 1
    /\ Len(QmlStarts) = 1
    /\ Len(QmlFlagged) = 2

(***************************************************************************)
(* C17.  The configuration captured at run start is not changed by the     *)
(* pipeline: only the start of a run changes the manifest, the release     *)
(* flag, the clean flag and the QML list, and every use of the release or  *)
(* debug subdirectory in one run (qmake's CONFIG argument, the deploy      *)
(* target, the copy destinations, the QML DLL paths, the Finished payload  *)
(* and the directory cleaned) names the subdirectory of the captured flag. *)
(* (The four paths are the same in every run of the model.)                *)
(***************************************************************************)
RunStarts == package_terminal' = << "Starting packaging with" >>

CapturedDir == << "out", config_dir(is_release) >>

InCapturedDir(path) == Len(path) >= 2 /\ SubSeq(path, 1, 2) = CapturedDir

OneDirectoryThroughout ==
    /\ \A i \in DOMAIN started :
          LET r == started[i]
          IN  /\ r.program = "qmake.exe" =>
                    r.args = << <<"app.pro">>,
                                <<"CONFIG+=", config_dir(is_release)>> >>
              /\ r.program = "windeployqt.exe" => InCapturedDir(r.args[1])
    /\ \A i \in DOMAIN events :
          LET e == events[i]
          IN  /\ e.msg \in {"Copied", "Failed to copy", "Deploying QML DLL"} =>
                    InCapturedDir(e.path)
              /\ (IsFinished(e) \/ e.msg = "Cleaned build artifact files.") =>
                    e.path = CapturedDir
              /\ e.msg = "Executable not found" => InCapturedDir(e.path)

OkDeploys ==
    Len(SelectSeq(delivered,
                  LAMBDA d : /\ d.program = "windeployqt.exe"
                             /\ d.status = "NormalExit"
                             /\ d.code = 0))

\* the destination of an entry without its leading separator
FlaggedName(entry) ==
    SubSeq(entry.Destination, 2, Len(entry.Destination))

IndexOf(name) == CHOOSE i \in DOMAIN stages : stages[i].name = name

C18_QmlStagesInManifestOrder ==
    /\ Len(QmlStages) <= Len(QmlFlagged)
    /\ \A k \in DOMAIN QmlStages : QmlStages[k].i = k - 1
    /\ Len(QmlStarts) = Len(QmlStages)
    /\ \A k \in DOMAIN QmlStarts :
          QmlStarts[k].args[1] =
              << "out", config_dir(is_release), FlaggedName(QmlFlagged[k]) >>
    /\ Len(QmlStages) <= OkDeploys
    /\ Entered("Succeeded") =>
          /\ Len(QmlStages) = Len(QmlFlagged)
          /\ (QmlFlagged = <<>> /\ external_sources # <<>>) =>
                stages[IndexOf("Succeeded") - 1].name = "CopyingExternalSources"

C18_Witness ==
    /\ HappyRun
    /\ external_sources = <<Qml, QmlLow>>
    /\ Entered("Succeeded")
    /\ QmlStages = << Stage("DeployingQmlDependency", 0),
                      Stage("DeployingQmlDependency", 1) >>
    /\ OkDeploys = 3

(***************************************************************************)
(* C19.  When the qml directory beside the Qt bin directory is missing and *)
(* the run comes to its first QML entry, the run fails: exactly one Error  *)
(* names the missing path Qt/qml, no DeployingQmlDependency stage is       *)
(* entered, no QML deploy process is started for that entry or a later     *)
(* one, no process is left running and no Finished is emitted.  It is the  *)
(* only Error of the run unless the user also asked for a stop, whose own  *)
(* Error is then the only other one.                                       *)
(***************************************************************************)
IsPathNotFound(e) == IsError(e) /\ e.msg = "Path not found"

\* the copy step is over and a QML entry is next
QmlStepReached ==
    /\ QmlFlagged # <<>>
    /\ Entered("CopyingExternalSources")
    /\ ~CopyFailed

C19_MissingQmlDirFails ==
    (~fs.qmldir /\ QmlStepReached) =>
        LET reports == SelectSeq(events, IsPathNotFound)
        IN  /\ Len(reports) = 1
            /\ reports[1].path = << "Qt", "qml" >>
            /\ \A k \in DOMAIN events :
                  IsError(events[k]) =>
                     IsPathNotFound(events[k]) \/ IsStopError(events[k])
            /\ ~StopRequested => Len(Errors) = 1
            /\ QmlStages = <<>>
            /\ QmlStarts = <<>>
            /\ Quiescent
            /\ Len(Finisheds) = 0

C19_Witness ==
    /\ ~fs.qmldir
    /\ fresh
    /\ external_sources = <<Qml, QmlLow>>
    /\ QmlStepReached
    /\ Len(Errors) = 1
    /\ stages[Len(stages)].name = "Failed"

(***************************************************************************)
(* C20.  A copy that raises an I/O error ends the run: exactly one Error   *)
(* names the failing entry's source and its destination (the destination   *)
(* under the build directory, with or without its leading separator), no   *)
(* later entry is copied, no DeployingQmlDependency stage is entered, no   *)
(* process is started after it and no Finished is emitted.  It is the only *)
(* Error of the run unless the user also asked for a stop, whose own Error *)
(* is then the only other one.                                             *)
(***************************************************************************)
IsCopyFailure(e) == IsError(e) /\ e.msg = "Failed to copy"

\* the run's copy step met an I/O error at the entry of this index
CopyRaisedAt(n) ==
    \E i \in DOMAIN events : events[i].msg = "Failed to copy" /\ events[i].code = n

IsInvalidEntry(entry) == entry.Source = "" \/ entry.Destination = ""

\* the copy loop came to the entry of this index
CopyCameTo(n) ==
    /\ Entered("CopyingExternalSources")
    /\ \A k \in 1..(n - 1) : ~CopyRaisedAt(k)

EventsAbout(n, msg) ==
    SelectSeq(events, LAMBDA e : e.msg = msg /\ e.code = n)

C21_InvalidEntrySkipped ==
    /\ \A n \in DOMAIN external_sources :
          LET entry == external_sources[n]
          IN  CopyCameTo(n) =>
                 IF IsInvalidEntry(entry)
                 THEN /\ Len(EventsAbout(n, "Invalid entry, skipping")) = 1
                      /\ EventsAbout(n, "Invalid entry, skipping")[1].kind = "Output"
                      /\ EventsAbout(n, "Copied") = <<>>
                      /\ EventsAbout(n, "Failed to copy") = <<>>
                 ELSE /\ EventsAbout(n, "Invalid entry, skipping") = <<>>
                      /\ Len(EventsAbout(n, "Copied"))
                            + Len(EventsAbout(n, "Failed to copy")) = 1
    /\ (RunStarted /\ HappyRun /\ Quiescent) =>
          /\ Entered("Succeeded")
          /\ Len(Errors) = 0

C21_Witness ==
    /\ HappyRun
    /\ external_sources = <<NoSrc, NoDst, Plain>>
    /\ Len(EventsAbout(1, "Invalid entry, skipping")) = 1
    /\ Len(EventsAbout(2, "Invalid entry, skipping")) = 1
    /\ Len(EventsAbout(3, "Copied")) = 1
    /\ Entered("Succeeded")

(***************************************************************************)
(* C23.  The clean-up runs only when the clean flag was requested and only *)
(* after the run Succeeded: every line the clean-up emits comes after the  *)
(* run's Finished event, in a run whose clean flag is set, that has        *)
(* entered Succeeded and whose last stage is Succeeded, not Failed or      *)
(* Cancelled.                                                              *)
(***************************************************************************)
IsCleanUpLine(e) ==
    e.msg \in {"Cleaned build artifact files.", "[Error] Could not delete"}

C23_CleanOnlyAfterSuccess ==
    \A i \in DOMAIN events :
        IsCleanUpLine(events[i]) =>
            /\ need_clean
            /\ Entered("Succeeded")
            /\ stages[Len(stages)].name = "Succeeded"
            /\ \E j \in 1..(i - 1) : IsFinished(events[j])

C23_Witness ==
    /\ need_clean
    /\ \E i \in DOMAIN events : events[i].msg = "Cleaned build artifact files."
    /\ \E i \in DOMAIN events : events[i].msg = "[Error] Could not delete"
    /\ Len(Finisheds) = 1

(***************************************************************************)
(* C30.  The caller's is_compiling flag is True only while a run is        *)
(* active: in every state between two handlers, once the run has emitted   *)
(* its terminal event (Finished or Error, the Error emitted inside         *)
(* compile_qt_project included), is_compiling is False.                    *)
(***************************************************************************)
C30_IdleAfterTerminalEvent ==
    Len(TerminalEvents) >= 1 => ~is_compiling

(***************************************************************************)
(* C22  When an entry of the manifest is copied, a source file is          *)
(* afterwards in the build directory under the names of its destination,   *)
(* the leading separators taken off, with the content of the source; the   *)
(* files of a source directory are afterwards under the destination with   *)
(* their content; every file that was in the build directory and is not    *)
(* the counterpart of a source file is still there as it was.              *)
(***************************************************************************)
CopiedNow ==
    /\ events = <<>>
    /\ \E i \in DOMAIN events' : events'[i].msg = "Copied"

CopyResult ==
    LET entry  == external_sources'[1]
        src    == entry.Source
        X      == << "out", IF is_release' THEN "release" ELSE "debug" >>
        dest   == X \o Names(entry.Destination)
        copies == IF isfile(disk, src)
                  THEN { [path |-> dest, data |-> FileAt(disk, src).data] }
                  ELSE { [path |-> dest \o SubSeq(f.path, Len(src) + 1,
                                                  Len(f.path)),
                          data |-> f.data] :
                           f \in { g \in disk : IsUnder(g.path, src) } }
    IN  /\ copies # {}
        /\ \A copy \in copies :
              /\ isfile(disk', copy.path)
              /\ FileAt(disk', copy.path).data = copy.data
        /\ \A f \in disk :
              (IsUnder(f.path, X) /\ \A copy \in copies : copy.path # f.path)
                 => f \in disk'

C22_ManifestCopyResult == [][CopiedNow => CopyResult]_vars

(***************************************************************************)
(* C24  In a run that cleans, every file of the build directory itself     *)
(* named *.cpp, *.c or *.o that can be removed is removed, whatever files  *)
(* cannot; each of those is reported by an Output line, no Error is        *)
(* emitted, the run has emitted Finished and ends in Succeeded, nothing    *)
(* else is removed, and the count of the last line is the number of files  *)
(* removed.                                                                *)
(***************************************************************************)
CleanedNow == events = <<>> /\ need_clean' /\ events' # <<>>

EventsSaying(evs, msg) == SelectSeq(evs, LAMBDA e : e.msg = msg)

CleanResult ==
    LET dir      == << "out", IF is_release' THEN "release" ELSE "debug" >>
        matching == { f \in disk :
                        /\ Parent(f.path) = dir
                        /\ f.path[Len(f.path)] \in {"main.cpp", "util.c", "main.o"} }
        removed  == disk \ disk'
        warnings == EventsSaying(events', "[Error] Could not delete")
        counts   == EventsSaying(events', "Cleaned build artifact files.")
    IN  /\ disk' \subseteq disk
        /\ removed = { f \in matching : ~f.locked }
        /\ Len(warnings) = Cardinality({ f \in matching : f.locked })
        /\ \A i \in DOMAIN warnings :
              /\ warnings[i].kind = "Output"
              /\ \E f \in matching : f.locked /\ f.path = warnings[i].path
        /\ \A i \in DOMAIN events' : events'[i].kind # "Error"
        /\ \E i \in DOMAIN events' : events'[i].kind = "Finished"
        /\ stages'[Len(stages')].name = "Succeeded"
        /\ Len(counts) = 1
        /\ counts[1].kind = "Output"
        /\ counts[1].code = Cardinality(removed)

C24_CleanUpFailuresAreWarnings == [][CleanedNow => CleanResult]_vars

C24_Witness ==
    /\ need_clean
    /\ \E i \in DOMAIN events : events[i].msg = "[Error] Could not delete"
    /\ \E i \in DOMAIN events :
          /\ events[i].msg = "Cleaned build artifact files."
          /\ events[i].code = 2
    /\ isfile(disk, << "out", "debug", "main.cpp" >>)
    /\ ~isfile(disk, << "out", "debug", "util.c" >>)
    /\ isfile(disk, << "out", "debug", "sub", "deep.o" >>)
    /\ isfile(disk, << "out", "debug", "app.exe" >>)

(***************************************************************************)
(* C25  Every call of get_exe_name_from_pro on the same project file gives *)
(* the same name; the name does not depend on the letter case of the       *)
(* keyword or on the blanks around the keyword, the "=" and the value of   *)
(* the directive: it is the name resolved with the directive written       *)
(* TARGET = foo; and it is foo.exe when the directive is the only line of  *)
(* the file that begins with the letters of the keyword.                   *)
(***************************************************************************)
PlainDirective ==
    << "T", "A", "R", "G", "E", "T", " ", "=", " ", "f", "o", "o", "\n" >>

FooExe == << "f", "o", "o", ".", "e", "x", "e" >>

\* the project file with its directive written TARGET = foo
Canonical(lines) ==
    [i \in DOMAIN lines |->
        IF lines[i] \in Directives THEN PlainDirective ELSE lines[i]]

BeginsWithKeyword(line) == StartsWith(Lower(LStrip(line)), TargetKeyword)

DirectiveAlone ==
    /\ \E i \in DOMAIN project_lines : project_lines[i] \in Directives
    /\ \A i \in DOMAIN project_lines :
          BeginsWithKeyword(project_lines[i]) => project_lines[i] \in Directives

C25_ExeNameIdempotent ==
    /\ \A i, j \in DOMAIN resolved : resolved[i] = resolved[j]
    /\ \A i \in DOMAIN resolved :
          resolved[i] = get_exe_name_from_pro(ProjectFileName,
                                              Canonical(project_lines))
    /\ DirectiveAlone => \A i \in DOMAIN resolved : resolved[i] = FooExe

C25_Witness ==
    /\ Len(resolved) = 2
    /\ resolved[2] = FooExe
    /\ \E i \in DOMAIN project_lines :
          project_lines[i] = << "\t", "t", "a", "r", "g", "e", "t", "=", "f", "o",
                                "o", " ", "\n" >>

(***************************************************************************)
(* C26  The name is the text after "=" of the line that is the keyword     *)
(* TARGET followed by "=", in any letter case and with blanks around; no   *)
(* other line changes it; without such a line it is the base name of the   *)
(* project file; ".exe" is appended.                                       *)
(***************************************************************************)
IsTargetAssignment(line) ==
    LET text == Lower(LStrip(line))
    IN  /\ StartsWith(text, TargetKeyword)
        /\ LET rest == LStrip(SubSeq(text, Len(TargetKeyword) + 1, Len(text)))
           IN  rest # << >> /\ Head(rest) = "="

RECURSIVE NameAssigned(_, _)
NameAssigned(lines, name) ==
    IF lines = << >> THEN name
    ELSE IF IsTargetAssignment(Head(lines))
         THEN NameAssigned(Tail(lines), Strip(Split(Head(lines), "=")[2]))
         ELSE NameAssigned(Tail(lines), name)

C26_OnlyTargetLinesNameTheExe ==
    \A i \in DOMAIN resolved :
       resolved[i] = NameAssigned(project_lines, << "a", "p", "p" >>)
                        \o << ".", "e", "x", "e" >>

(***************************************************************************)
(* C27  Every tool is started with its fixed arguments in the output       *)
(* directory: qmake with the project file and "CONFIG+=release" when the   *)
(* release flag is set, "CONFIG+=debug" otherwise; make with no argument;  *)
(* windeployqt with the path out/{release|debug}/demo.exe of the           *)
(* executable, and for a QML dependency with the path of the DLL,          *)
(* "--qmldir" and the qml directory beside the Qt bin directory.           *)
(***************************************************************************)
ConfigName == IF is_release THEN "release" ELSE "debug"

ExecutableName == << "d", "e", "m", "o", ".", "e", "x", "e" >>

IsQmlDllPath(path) ==
    /\ Len(path) = 3
    /\ SubSeq(path, 1, 2) = << "out", ConfigName >>
    /\ \E i \in DOMAIN external_sources :
          /\ IsQmlFlagged(external_sources[i])
          /\ path[3] = FlaggedName(external_sources[i])

HasFixedShape(s) ==
    /\ s.cwd = << "out" >>
    /\ CASE s.program = "qmake.exe" ->
               s.args = << << "app.pro" >>, << "CONFIG+=", ConfigName >> >>
         [] s.program = "mingw32-make.exe" ->
               s.args = << >>
         [] s.program = "windeployqt.exe" ->
               \/ s.args = << << "out", ConfigName, ExecutableName >> >>
               \/ /\ Len(s.args) = 3
                  /\ IsQmlDllPath(s.args[1])
                  /\ s.args[2] = << "--qmldir" >>
                  /\ s.args[3] = << "Qt", "qml" >>
         [] OTHER -> FALSE

C27_FixedArgumentShapes ==
    \A i \in DOMAIN started : HasFixedShape(started[i])

C27_Witness ==
    /\ is_release
    /\ Len(started) = 4
    /\ started[1].program = "qmake.exe"
    /\ started[2].program = "mingw32-make.exe"
    /\ Len(started[3].args) = 1
    /\ Len(started[4].args) = 3
    /\ Entered("Succeeded")

(***************************************************************************)
(* C28  In the search path of every process that is started, the Qt bin    *)
(* directory and the compiler bin directory come before every entry of     *)
(* the inherited search path.                                              *)
(***************************************************************************)
ComesFirst(dir, path) ==
    \E i \in DOMAIN path :
       /\ path[i] = dir
       /\ \A j \in DOMAIN path :
             (\E k \in DOMAIN InheritedPath : path[j] = InheritedPath[k])
                => i < j

C28_BinDirectoriesPrepended ==
    \A i \in DOMAIN started :
       /\ ComesFirst(qt_bin, started[i].PATH)
       /\ ComesFirst(mingw_bin, started[i].PATH)

(***************************************************************************)
(* C29  Every process start follows the Output line of its stage, which is *)
(* the last signal emitted before it.  What the handlers forward is what   *)
(* the children wrote: the chunks of stdout as they are, the chunks of     *)
(* stderr behind the prefix "[Error] ", each channel in the order of       *)
(* writing, and every chunk written is forwarded, still unread, or was     *)
(* taken by a read that did not decode.                                    *)
(***************************************************************************)
StageLine(s) ==
    CASE s.program = "qmake.exe"        -> "Running qmake..."
      [] s.program = "mingw32-make.exe" -> "Running make..."
      [] Len(s.args) = 1                -> "Running windeployqt..."
      [] OTHER                          -> "Deploying QML DLL"

IsForwarded(e) == "text" \in DOMAIN e

Prefix(channel) == IF channel = "stderr" THEN "[Error] " ELSE ""

RECURSIVE ChunksIn(_, _)
ChunksIn(evs, prefix) ==
    IF evs = <<>> THEN <<>>
    ELSE IF IsForwarded(Head(evs)) /\ Head(evs).msg = prefix
         THEN Head(evs).text \o ChunksIn(Tail(evs), prefix)
         ELSE ChunksIn(Tail(evs), prefix)

ForwardedChunks(channel) == ChunksIn(events, Prefix(channel))

StageLineBeforeStart ==
    \A i \in DOMAIN started :
       LET n == started[i].after
       IN  /\ n \in DOMAIN events
           /\ ~IsForwarded(events[n])
           /\ events[n].kind = "Output"
           /\ events[n].msg = StageLine(started[i])

ForwardedInOrder(channel) ==
    LET chunks == ForwardedChunks(channel)
    IN  /\ \A i \in DOMAIN chunks : chunks[i].channel = channel
        /\ \A i, j \in DOMAIN chunks : i < j => chunks[i].n < chunks[j].n

C29_StageLinesAndForwarding ==
    /\ StageLineBeforeStart
    /\ \A i \in DOMAIN events :
          IsForwarded(events[i]) =>
             /\ events[i].kind = "Output"
             /\ events[i].msg \in {"", "[Error] "}
             /\ events[i].text # <<>>
    /\ ForwardedInOrder("stdout")
    /\ ForwardedInOrder("stderr")
    /\ Len(ForwardedChunks("stdout")) + Len(ForwardedChunks("stderr"))
          + Len(process.out) + Len(process.err) + process.undecoded
       = process.wrote

C29_Witness ==
    /\ Len(started) >= 2
    /\ Len(ForwardedChunks("stdout")) = 1
    /\ Len(ForwardedChunks("stderr")) = 1
    /\ ForwardedChunks("stderr")[1].n < ForwardedChunks("stdout")[1].n
    /\ Entered("Succeeded")

(***************************************************************************)
(* C34  A stage begins only when the process of the stage before it, a     *)
(* process of the same run, has completed with a normal exit and code 0:   *)
(* make is started only after qmake succeeded, the windeployqt of the      *)
(* Deploying stage only after make succeeded, the copy only after that     *)
(* windeployqt succeeded; and Finished is emitted only when every process  *)
(* started in the run has completed with a normal exit and code 0.         *)
(***************************************************************************)
IsSuccess(d) == d.current /\ d.status = "NormalExit" /\ d.code = 0

HasSucceeded(program) ==
    \E j \in DOMAIN delivered :
       delivered[j].program = program /\ IsSuccess(delivered[j])

StagesFollowSuccess ==
    /\ Started("mingw32-make.exe") => HasSucceeded("qmake.exe")
    /\ DeployStarts >= 1 => HasSucceeded("mingw32-make.exe")
    /\ Entered("CopyingExternalSources") => HasSucceeded("windeployqt.exe")

FinishedFollowsSuccess ==
    Len(Finisheds) >= 1 =>
       /\ \A j \in DOMAIN delivered : IsSuccess(delivered[j])
       /\ Len(delivered) = Len(started)

C34_StagesOnlyAfterSuccess == StagesFollowSuccess /\ FinishedFollowsSuccess

(***************************************************************************)
(* C39  The completion of a process that was started in an earlier run,    *)
(* handled after a new run has reset the flags, enters no stage, starts no *)
(* process and emits no signal in the new run.                             *)
(***************************************************************************)
StaleCompletionHandled ==
    /\ Len(delivered') = Len(delivered) + 1
    /\ ~delivered'[Len(delivered')].current

C39_StaleCompletionIgnored ==
    [][ StaleCompletionHandled =>
          /\ stages' = stages
          /\ started' = started
          /\ events' = events ]_vars

(***************************************************************************)
(* C35  When mingw32-make.exe does not exist at the time the qmake         *)
(* completion is handled, the run emits exactly one Error naming           *)
(* mingw/bin/mingw32-make.exe, every other Error being the one of a stop   *)
(* request; no make process is started, no process is left running, and    *)
(* none of the stages from Building on is entered.                         *)
(***************************************************************************)
LaterStages(name) ==
    CASE name = "Configuring" ->
            {"Building", "Deploying", "CopyingExternalSources",
             "DeployingQmlDependency", "Succeeded"}
      [] name = "Building" ->
            {"Deploying", "CopyingExternalSources", "DeployingQmlDependency",
             "Succeeded"}
      [] OTHER -> {}

IsMakeNotFound(e) ==
    e = Event("Error", "Make tool not found", 0,
              << "mingw", "bin", "mingw32-make.exe" >>, "")

C35_MissingMakeToolAborts ==
    (_make_started /\ ~fs.make) =>
        /\ Len(SelectSeq(events, IsMakeNotFound)) = 1
        /\ \A i \in DOMAIN events :
              IsError(events[i]) =>
                 IsMakeNotFound(events[i]) \/ IsStopError(events[i])
        /\ ~Started("mingw32-make.exe")
        /\ Quiescent
        /\ \A name \in LaterStages("Configuring") : ~Entered(name)
        /\ Len(Finisheds) = 0

C35_Witness ==
    /\ _make_started
    /\ ~fs.make
    /\ Len(delivered) = 1
    /\ delivered[1].program = "qmake.exe"
    /\ Len(Errors) = 1
    /\ Entered("Failed")

(***************************************************************************)
(* C36  windeployqt is started for the executable only when                *)
(* out/{release|debug}/demo.exe exists at the time the make completion is  *)
(* handled; when it does not, the run emits exactly one Error naming that  *)
(* path, every other Error being the one of a stop request, starts no      *)
(* windeployqt, enters none of the stages from Deploying on and emits no   *)
(* Finished.                                                                *)
(***************************************************************************)
IsExeNotFound(e) ==
    e = Event("Error", "Executable not found", 0,
              << "out", IF is_release THEN "release" ELSE "debug",
                 << "d", "e", "m", "o", ".", "e", "x", "e" >> >>, "")

C36_DeployNeedsExecutable ==
    /\ Started("windeployqt.exe") => fs.exe
    /\ (_deploy_started /\ ~fs.exe) =>
          /\ Len(SelectSeq(events, IsExeNotFound)) = 1
          /\ \A i \in DOMAIN events :
                IsError(events[i]) =>
                   IsExeNotFound(events[i]) \/ IsStopError(events[i])
          /\ Quiescent
          /\ \A name \in LaterStages("Building") : ~Entered(name)
          /\ Len(Finisheds) = 0

C36_Witness ==
    /\ _deploy_started
    /\ ~fs.exe
    /\ is_release
    /\ Len(delivered) = 2
    /\ Len(Errors) = 1
    /\ StartsOf("mingw32-make.exe") = 1

(***************************************************************************)
(* C37  In every state: _deploy_started implies _make_started,             *)
(* _copy_sources_started implies _deploy_started, a QML index above 0      *)
(* implies _deploy_started, and _copy_sources_started when the manifest is *)
(* not empty; the QML index is between 0 and the number of entries flagged *)
(* QML, which is the length of the list of QML files, and is the number of *)
(* windeployqt processes started for QML files in the current run.         *)
(***************************************************************************)
C37_StageFlagsConsistent ==
    /\ _deploy_started => _make_started
    /\ _copy_sources_started => _deploy_started
    /\ _qml_dll_deploy_count > 0 =>
          /\ _deploy_started
          /\ external_sources # <<>> => _copy_sources_started
    /\ _qml_dll_deploy_count \in 0..Len(QmlFlagged)
    /\ Len(_qml_dll_need_deploy_files) = Len(QmlFlagged)
    /\ _qml_dll_deploy_count = Len(QmlStarts)

C37_Witness ==
    /\ _qml_dll_deploy_count = 2
    /\ Len(QmlFlagged) = 2
    /\ _copy_sources_started
    /\ ~fresh

(***************************************************************************)
(* C38  A stop request emits its Error only for an active run: when the    *)
(* Error "Build stopped by user" is emitted, a run has begun and has not   *)
(* yet emitted a Finished or an Error.                                     *)
(***************************************************************************)
StopErrorEmitted ==
    /\ Len(events') = Len(events) + 1
    /\ IsStopError(events'[Len(events')])

RunActive == RunStarted /\ Len(TerminalEvents) = 0

C38_StopErrorOnlyForActiveRun == [][StopErrorEmitted => RunActive]_vars

(***************************************************************************)
(* C40  A secondary (QML) deploy process is started only for manifest      *)
(* entries the copy step copied: the entry behind every QML deploy of the  *)
(* run has its "Copied" event.                                             *)
(***************************************************************************)
\* the place in the manifest of the k-th entry flagged as QML
FlaggedIndex(k) ==
    CHOOSE n \in DOMAIN external_sources :
        /\ IsQmlFlagged(external_sources[n])
        /\ Cardinality({m \in 1..n : IsQmlFlagged(external_sources[m])}) = k

C40_QmlDeployOnlyForCopied ==
    \A k \in 1..Len(QmlStarts) : EventsAbout(FlaggedIndex(k), "Copied") # <<>>

(***************************************************************************)
(* Reading the scan.                                                       *)
(***************************************************************************)
\* the directories a scan of the folder has to check
ToCheck(folder) ==
    LET tree == qt_root[folder]
    IN  (IF tree.is_dir THEN candidates(tree) ELSE {})
           \cup (IF tree.is_dir /\ tree.tools THEN mingw_dirs(tree) ELSE {})

\* the window handles a ScanFinishedEvent
Updated == posted # <<>> /\ posted' = Tail(posted)

MappingsChange == qt_compiler' # qt_compiler \/ qt_mingw' # qt_mingw

Scanning == env_button = "Scanning..."

RootMissing == ~qt_root[scan_thread.folder].is_dir
ToolsMissing == ~(qt_root[scan_thread.folder].is_dir
                    /\ qt_root[scan_thread.folder].tools)

DeliveredWithout ==
    /\ ~Scanning
    /\ posted = <<>>
    /\ RootMissing => qt_compiler = <<>> /\ env_qt_version_combo_box.items = <<>>
    /\ ToolsMissing => qt_mingw = <<>> /\ env_qt_mingw_combo_box.items = <<>>

C32_MissingDirectoriesTolerated ==
    /\ [](scan_thread.pc # "raised")
    /\ (Scanning /\ (RootMissing \/ ToolsMissing)) ~> DeliveredWithout

C32_Witness ==
    /\ DeliveredWithout
    /\ ToolsMissing /\ ~RootMissing
    /\ scan_thread.folder # DefaultFolder
    /\ qt_compiler # <<>>

(***************************************************************************)
(* C33  Once the window has the result of a scan, every compiler directory *)
(* of the folder with a valid name and bin/qmake.exe is in the mapping,    *)
(* under the label get_qt_info gives it, the fallback labels included.     *)
(***************************************************************************)
Items(d) == {d[i] : i \in DOMAIN d}

Reported(dir) ==
    check_compiler(scan_thread.folder, dir) \in Items(qt_compiler)

C33_FailedDetectionStillReported ==
    (~Scanning /\ scan_thread.pc = "finished") =>
       \A dir \in ToCheck(scan_thread.folder) \cap
                     qt_root[scan_thread.folder].compilers :
          is_qt_compiler_dir(dir) => Reported(dir)
====
